---- MODULE Spec2Model ----
(***************************************************************************)
(* Limit order book of ApexLOB (src/Order.h, src/OrderBook.h), the threads *)
(* that call it, and the signal engine (src/AlphaSignalGenerator.h).       *)
(*                                                                         *)
(* Order objects live in a heap and are referred to by reference, as the   *)
(* std::shared_ptr<Order> of the source: a reference is the index of the   *)
(* object in `heap`.  Price levels queue references, not copies.           *)
(*                                                                         *)
(* Quantities are uint32_t in the source.  A model quantity k stands for   *)
(* k * 2^(32 - QtyBits) units, so that the wrap-around of the 32-bit       *)
(* counters happens at UintMod = 2^QtyBits; min, +, -, the tests against 0 *)
(* and the wrap-around all commute with that scaling.  Prices are doubles  *)
(* in the source; the model uses the finite ordered prices 1..MaxPrice.    *)
(***************************************************************************)
EXTENDS Integers, Sequences, FiniteSets, TLC

\* ---------------------------------------------------------------- bounds
MaxOrders == 3          \* Order objects constructed in one behaviour
MaxLargeOrders == 4     \* the same, in the behaviours of large orders only
MaxPrice  == 2          \* prices are 1..MaxPrice
QtyBits   == 2          \* width of the model's unsigned quantity type
MaxThreadOrders == 3    \* Order objects submitted by concurrent threads
MaxSignalPrice == 1     \* prices fed to the signal engine: -1, 0, 1
MaxChanges == 1         \* times the fed price differs from the one before
ExtraSamples == 1       \* samples fed beyond LONG_MA_PERIOD
MaxOverflow == 2        \* samples fed beyond MAX_HISTORY
MaxStep == 1            \* the step of a feed in equal steps
MaxFeedOrders == 3      \* well-formed messages the feed callback handles
MaxLockEvents == 2      \* messages handled while other threads read

UintMod    == 2 ^ QtyBits
UintMax    == UintMod - 1
Prices     == 1 .. MaxPrice
\* quantities an Order is constructed with: none, the smallest, the largest
Quantities == {0, 1, UintMax}
Sides      == {"Buy", "Sell"}

\* ------------------------------------------------------- unsigned helpers
Add32(a, b) == (a + b) % UintMod
Sub32(a, b) == (a - b + UintMod) % UintMod
Min(a, b)   == IF a < b THEN a ELSE b

RECURSIVE GCD(_, _)
GCD(a, b) == IF b = 0 THEN a ELSE GCD(b, a % b)

\* the factor two denominators share; 1 when both are 0
Common(a, b) == IF GCD(a, b) = 0 THEN 1 ELSE GCD(a, b)

\* a double quotient n / d, kept exact as a reduced fraction
Quotient(n, d) ==
    LET g == GCD(n, d) IN [num |-> n \div g, den |-> d \div g]
Zero == [num |-> 0, den |-> 1]
Real(n) == [num |-> n, den |-> 1]

\* ------------------------------------------------------------ the state
VARIABLES
    heap,                \* Seq of Order objects; a reference is an index
    bids,                \* price -> LimitLevel, iterated highest first
    asks,                \* price -> LimitLevel, iterated lowest first
    lastTradePrice,
    totalVolumeTraded,
    cumulativeNotional,
    \* history variables (not in the source; they record what a call did)
    call,                \* the last submitOrder call: its argument at entry
    fills,               \* the fills generated by the last call, in order
    fillCount,           \* number of fills generated so far
    allFillsQty,         \* exact sum of the quantities of all fills so far
    allFillsNotional,    \* exact sum of price * quantity of all fills
    rested,              \* per Order object: the quantity it was made with,
                         \* the quantity it came to rest with and its turn
    restClock,           \* number of rests so far
    \* the threads that call the book
    mtx,                 \* OrderBook::mtx: the set of threads that hold it
    pc,                  \* per thread: where it is in the call it makes
    frame,               \* per submitting thread: the locals of matchOrder
    inflight,            \* history: the submitOrder call that holds mtx
    obs,                 \* history: what the last getter call returned
    snap,                \* the values a reader has collected, call by call
    seen,                \* history: the getter values of every book so far
    \* AlphaSignalGenerator
    priceHistory,
    volumeHistory,
    vwapHistory,
    updates,             \* history: number of updatePrice calls so far
    signal,              \* what the last generateSignal call returned
    \* determineSignal and calculateSignalStrength on their own
    indicators,          \* the arguments of a call
    scored,              \* what the call returned
    \* the feed adapter (src/main.cpp)
    feed,                \* history: the last message and what became of it
    signalMtx,           \* AlphaSignalGenerator::mtx: the threads that hold it
    at,                  \* per thread of the adapter and its readers: the
                         \* call it is in and the locals it holds
    \* Logger (src/Logger.h) as main() uses it
    logger,              \* the fields of the Logger instance
    mutex_,              \* Logger::mutex_: the set of threads that hold it
    main                 \* where main() is, in main.cpp and in Logger.h

bookVars   == <<heap, bids, asks, lastTradePrice, totalVolumeTraded,
                cumulativeNotional, call, fills, fillCount, allFillsQty,
                allFillsNotional, rested, restClock>>
threadVars == <<mtx, pc, frame, inflight, obs>>
readerVars == <<snap, seen>>
engineVars == <<priceHistory, volumeHistory, vwapHistory, updates, signal>>
scoreVars  == <<indicators, scored>>
adapterVars == <<feed, signalMtx, at>>
loggerVars == <<logger, mutex_, main>>
otherVars  == <<engineVars, scoreVars, adapterVars, loggerVars>>

vars  == <<bookVars, threadVars, readerVars, engineVars, scoreVars,
           adapterVars, loggerVars>>

\* ------------------------------------------------------ Order, LimitLevel
Order(price, qty, side) ==
    [price |-> price, quantity |-> qty, side |-> side]

LimitLevel == [price |-> 0, totalVolume |-> 0, orders |-> <<>>]

NoCall == [ref |-> 0, side |-> "Buy", price |-> 0, qty0 |-> 0, again |-> FALSE]

\* ------------------------------------------------------ map iteration
RECURSIVE Descending(_)
Descending(S) ==
    IF S = {} THEN <<>>
    ELSE LET mx == CHOOSE x \in S : \A y \in S : y <= x
         IN  <<mx>> \o Descending(S \ {mx})

RECURSIVE Ascending(_)
Ascending(S) ==
    IF S = {} THEN <<>>
    ELSE LET mn == CHOOSE x \in S : \A y \in S : x <= y
         IN  <<mn>> \o Ascending(S \ {mn})

\* bids kept with the comparator of asks
bidsOrder_Ascending(sideMap) == Ascending(DOMAIN sideMap)

\* std::map<double, LimitLevel, std::greater<double>> bids: begin() is the
\* highest price
bidsOrder(sideMap) == Descending(DOMAIN sideMap)
\* std::map<double, LimitLevel, std::less<double>> asks: begin() is the
\* lowest price
asksOrder(sideMap) == Ascending(DOMAIN sideMap)

Erase(sideMap, key) == [p \in (DOMAIN sideMap) \ {key} |-> sideMap[p]]

RemoveAt(s, i) == SubSeq(s, 1, i - 1) \o SubSeq(s, i + 1, Len(s))

RECURSIVE SumQty(_, _)
SumQty(h, refs) ==
    IF refs = <<>> THEN 0 ELSE h[Head(refs)].quantity + SumQty(h, Tail(refs))

RECURSIVE SumOver(_, _)
SumOver(f, S) ==
    IF S = {} THEN 0
    ELSE LET x == CHOOSE y \in S : TRUE IN f[x] + SumOver(f, S \ {x})

\* quantity still queued at the levels of `opp` priced strictly better (for
\* the side being hit) than `key`
BetterQty(h, opp, key, aggressorSide) ==
    LET better == {p \in DOMAIN opp :
                      IF aggressorSide = "Buy" THEN p < key ELSE p > key}
    IN  SumOver([p \in better |-> SumQty(h, opp[p].orders)], better)

\* ------------------------------------------------------------ matchOrder
\* canMatch with the Sell comparison turned round
canMatch_SellReversed(order, levelPrice) ==
    order.price >= levelPrice

\* canMatch with the Buy comparison turned round
canMatch_BuyReversed(order, levelPrice) ==
    order.price <= levelPrice

\* canMatch without the limit test
canMatch_NoLimit(order, levelPrice) == TRUE

canMatch(order, levelPrice) ==
    IF order.side = "Buy" THEN order.price >= levelPrice
                          ELSE order.price <= levelPrice

\* a fill that trades nothing
tradedQty_Nothing(order, resting) == 0

\* the fill takes all the aggressor has left
tradedQty_Aggressor(order, resting) == order.quantity

tradedQty(order, resting) == Min(order.quantity, resting.quantity)

\* the trade priced at the aggressor's limit
tradePrice_Aggressor(order, levelPrice) == order.price

tradePrice(order, levelPrice) == levelPrice

\* m is the state matchOrder works on: the heap, the opposite side, the stats
\* and m.oi, the position of orderIt in the queue of the level being hit

\* while (orderIt != level.orders.end() && order->quantity > 0)
whileOrders(m, ref, key) ==
    /\ m.oi <= Len(m.opp[key].orders)
    /\ m.heap[ref].quantity > 0

\* the body of the inner while loop: one fill, against the order at orderIt
fillOrder(m, ref, key) ==
    LET level == m.opp[key]
        order == m.heap[ref]
        oi    == m.oi
        r     == level.orders[oi]
        tq    == tradedQty(order, m.heap[r])
        ltp   == tradePrice(order, key)
        heap1 == [m.heap EXCEPT ![ref].quantity = Sub32(@, tq)]
        heap2 == [heap1 EXCEPT ![r].quantity = Sub32(@, tq)]
        gone  == heap2[r].quantity = 0
        level1 == [level EXCEPT
                     !.totalVolume = Sub32(@, tq),
                     !.orders = IF gone THEN RemoveAt(@, oi) ELSE @]
        fill  == [price      |-> ltp,
                  quantity   |-> tq,
                  maker      |-> r,
                  makerPrice |-> m.heap[r].price,
                  levelPrice |-> key,
                  makerBefore |-> m.heap[r].quantity,
                  ahead      |-> Cardinality({j \in 1 .. Len(level.orders) :
                                    /\ level.orders[j] # r
                                    /\ m.rested[level.orders[j]].at
                                          < m.rested[r].at}),
                  better     |-> BetterQty(m.heap, m.opp, key, order.side)]
    IN  [m EXCEPT
            !.heap = heap2,
            !.opp  = [@ EXCEPT ![key] = level1],
            !.lastTradePrice = ltp,
            !.totalVolumeTraded = Add32(@, tq),
            !.cumulativeNotional = @ + tq * ltp,
            !.log = Append(@, fill),
            !.oi = IF gone THEN oi ELSE oi + 1]

\* the inner loop left after its first fill
levelLoop_OneFill(m, ref, key) ==
    IF ~whileOrders(m, ref, key) THEN m ELSE fillOrder(m, ref, key)

\* the inner while loop over level.orders of one level
RECURSIVE levelLoop(_, _, _)
levelLoop(m, ref, key) ==
    IF ~whileOrders(m, ref, key) THEN m
    ELSE levelLoop(fillOrder(m, ref, key), ref, key)

\* while (it != oppositeSide.end() && order->quantity > 0), and the break on
\* !canMatch; keys is the side's iteration order at entry (no level is
\* created while matching) and i the position of `it`
whileLevels(m, ref, keys, i) ==
    /\ i <= Len(keys)
    /\ m.heap[ref].quantity > 0
    /\ canMatch(m.heap[ref], keys[i])

\* auto& level = it->second; auto orderIt = level.orders.begin();
enterLevel(m) == [m EXCEPT !.oi = 1]

\* the level kept in the map whatever is left of its queue
leaveLevel_Keep(m, key) == m

\* if (level.orders.empty()) it = oppositeSide.erase(it); else ++it;
leaveLevel(m, key) ==
    IF m.opp[key].orders = <<>> THEN [m EXCEPT !.opp = Erase(@, key)] ELSE m

\* the outer while loop over the levels of the opposite side
RECURSIVE matchLoop(_, _, _, _)
matchLoop(m, ref, keys, i) ==
    IF ~whileLevels(m, ref, keys, i) THEN m
    ELSE matchLoop(leaveLevel(levelLoop(enterLevel(m), ref, keys[i]), keys[i]),
                   ref, keys, i + 1)

matchOrder(m, ref, keys) == matchLoop(m, ref, keys, 1)

\* ---------------------------------------------------------------- addLimit
\* push_front instead of push_back
appendOrder_Front(queue, ref) == <<ref>> \o queue

appendOrder(queue, ref) == Append(queue, ref)

\* the level of the price made anew for the order
addLimit_Replace(h, ref, sideMap) ==
    [p \in (DOMAIN sideMap) \cup {h[ref].price} |->
        IF p = h[ref].price
        THEN [price |-> h[ref].price, totalVolume |-> h[ref].quantity,
              orders |-> <<ref>>]
        ELSE sideMap[p]]

addLimit(h, ref, sideMap) ==
    LET price == h[ref].price
        level == IF price \in DOMAIN sideMap THEN sideMap[price] ELSE LimitLevel
        level1 == [price       |-> price,
                   totalVolume |-> Add32(level.totalVolume, h[ref].quantity),
                   orders      |-> appendOrder(level.orders, ref)]
    IN  [p \in (DOMAIN sideMap) \cup {price} |->
            IF p = price THEN level1 ELSE sideMap[p]]

\* ------------------------------------------------------------ submitOrder
\* the remainder is dropped
restsAfterMatch_Never(order) == FALSE

\* the test `order->quantity > 0` left out
restsAfterMatch_Always(order) == TRUE

restsAfterMatch(order) == order.quantity > 0

\* the whole of submitOrder(order) on the book (h, b, a, stats): the values
\* of the book and of the heap when the call returns, with the fills it made
submitOrder(h, ref, rst) ==
    LET isBuy == h[ref].side = "Buy"
        m0 == [heap |-> h,
               opp  |-> IF isBuy THEN asks ELSE bids,
               lastTradePrice |-> lastTradePrice,
               totalVolumeTraded |-> totalVolumeTraded,
               cumulativeNotional |-> cumulativeNotional,
               rested |-> rst,
               log  |-> <<>>,
               oi   |-> 1]
        m  == matchOrder(m0, ref,
                         IF isBuy THEN asksOrder(asks) ELSE bidsOrder(bids))
        rests == restsAfterMatch(m.heap[ref])
        own  == IF isBuy THEN bids ELSE asks
        own1 == IF rests THEN addLimit(m.heap, ref, own) ELSE own
    IN  [heap |-> m.heap,
         bids |-> IF isBuy THEN own1 ELSE m.opp,
         asks |-> IF isBuy THEN m.opp ELSE own1,
         lastTradePrice |-> m.lastTradePrice,
         totalVolumeTraded |-> m.totalVolumeTraded,
         cumulativeNotional |-> m.cumulativeNotional,
         rests |-> rests,
         log  |-> m.log]

\* ------------------------------------------------------------- getters
getLastTradePrice == lastTradePrice

\* getVWAP with the operands of the division exchanged
getVWAP_Swapped ==
    IF totalVolumeTraded > 0 /\ cumulativeNotional > 0
    THEN Quotient(totalVolumeTraded, cumulativeNotional)
    ELSE Zero

getVWAP ==
    IF totalVolumeTraded > 0
    THEN Quotient(cumulativeNotional, totalVolumeTraded)
    ELSE Zero

getTotalVolume == totalVolumeTraded

getCumulativeNotional == cumulativeNotional

\* the four getters, by name
Getters == {"getLastTradePrice", "getVWAP", "getTotalVolume",
            "getCumulativeNotional"}

\* the number a getter hands to its caller, as a fraction whatever its C++
\* type (double, or uint32_t for getTotalVolume)
get(g) ==
    CASE g = "getLastTradePrice"     -> Real(getLastTradePrice)
      [] g = "getVWAP"               -> getVWAP
      [] g = "getTotalVolume"        -> Real(getTotalVolume)
      [] g = "getCumulativeNotional" -> Real(getCumulativeNotional)

\* what the four getters return on the book as it is
Metrics == [g \in Getters |-> get(g)]

\* ------------------------------------------------------------- the threads
Submitters == {"s1", "s2"}       \* threads that call submitOrder
Readers    == {"r"}              \* a thread that calls the getters
Threads    == Submitters \cup Readers

NoFrame  == [ref |-> 0, keys |-> <<>>, i |-> 0, oi |-> 0]
NoFlight == [on |-> FALSE]
NoObs    == [on |-> FALSE]

\* ==================================================== AlphaSignalGenerator
\* (src/AlphaSignalGenerator.h)
\*
\* A double is a fraction num / den of integers in lowest terms with
\* den >= 0.  den = 0 stands for the values a division by zero leaves:
\* 1/0 is +infinity, -1/0 is -infinity and 0/0 is NaN.  The arithmetic is
\* exact: the rounding of the double operations is not modelled.
SHORT_MA_PERIOD   == 10
LONG_MA_PERIOD    == 30
RSI_PERIOD        == 14
MOMENTUM_PERIOD   == 10
VOLATILITY_PERIOD == 20
MAX_HISTORY       == 1000

Abs(x)  == IF x < 0 THEN -x ELSE x
Sign(x) == IF x < 0 THEN -1 ELSE IF x > 0 THEN 1 ELSE 0

Ratio(n, d) ==
    IF d = 0 THEN [num |-> Sign(n), den |-> 0]
    ELSE LET g == GCD(Abs(n), Abs(d))
             s == IF d < 0 THEN -1 ELSE 1
         IN  [num |-> (s * n) \div g, den |-> (s * d) \div g]

NaN     == [num |-> 0, den |-> 0]
IsNaN(a) == a.num = 0 /\ a.den = 0

\* the sum over the least common denominator
FAdd(a, b) ==
    Ratio(a.num * (b.den \div Common(a.den, b.den))
              + b.num * (a.den \div Common(a.den, b.den)),
          (a.den \div Common(a.den, b.den)) * b.den)
FSub(a, b) == FAdd(a, [num |-> -b.num, den |-> b.den])
\* the common factors are taken out before the products are formed, which
\* keeps the intermediate integers small
FMul(a, b) ==
    Ratio((a.num \div Common(Abs(a.num), b.den))
              * (b.num \div Common(Abs(b.num), a.den)),
          (a.den \div Common(Abs(b.num), a.den))
              * (b.den \div Common(Abs(a.num), b.den)))
\* a / b is a times the reciprocal of b
FDiv(a, b) ==
    FMul(a, IF b.num < 0 THEN [num |-> -b.den, den |-> -b.num]
            ELSE [num |-> b.den, den |-> b.num])
\* an / ad < bn / bd for ad > 0 and bd > 0, by the integer parts and then
\* the reciprocals of the fractional parts: no product is formed
RECURSIVE FracLess(_, _, _, _)
FracLess(an, ad, bn, bd) ==
    IF an \div ad # bn \div bd THEN an \div ad < bn \div bd
    ELSE IF bn % bd = 0 THEN FALSE
    ELSE IF an % ad = 0 THEN TRUE
    ELSE FracLess(bd, bn % bd, ad, an % ad)

\* a < b; false when a or b is NaN
FLess(a, b) ==
    IF a.den = 0 \/ b.den = 0 THEN a.num * b.den < b.num * a.den
    ELSE FracLess(a.num, a.den, b.num, b.den)
\* a == b
FEq(a, b)  == ~IsNaN(a) /\ ~IsNaN(b) /\ a = b
\* std::abs
stdAbs(a)  == [num |-> Abs(a.num), den |-> a.den]
\* std::min(a, b) is (b < a) ? b : a
stdMin(a, b) == IF FLess(b, a) THEN b ELSE a

\* The volatility is std::sqrt(variance) / mean * 100.0, which is not a
\* fraction.  A double x that comes out of a square root is a percentage; it
\* is kept as the signed square of x / 100, which orders as x does: Root(5)
\* is 5.0 and Root(100) is 100.0.
Root(n) == Ratio(n * Abs(n), 100 * 100)
\* std::sqrt(v) / m for v >= 0
sqrtOver(v, m) ==
    FMul(Real(IF m.num < 0 THEN -1 ELSE 1), FDiv(v, FMul(m, m)))
\* x * k for x kept as a signed square
rootTimes(x, k) == FMul(x, Root(k))

\* the sum of the last `period` elements of data
RECURSIVE sumLast(_, _)
sumLast(data, period) ==
    IF period = 0 THEN 0
    ELSE data[Len(data) - period + 1]
            + sumLast(data, period - 1)

calculateSMA(data, period) ==
    IF Len(data) < period THEN Real(0)
    ELSE FDiv(Real(sumLast(data, period)), Real(period))

\* the sum of the gains (up = TRUE) or of the losses over the changes
\* prices[i] - prices[i - 1] for the last `period` positions i
RECURSIVE sumChanges(_, _, _)
sumChanges(prices, period, up) ==
    IF period = 0 THEN 0
    ELSE LET i      == Len(prices) - period + 1
             change == prices[i] - prices[i - 1]
             gain   == IF change > 0 THEN change ELSE 0
             loss   == IF change > 0 THEN 0 ELSE -change
         IN  (IF up THEN gain ELSE loss) + sumChanges(prices, period - 1, up)

\* no losses and no gains taken as the neutral RSI
calculateRSI_FlatNeutral(prices, period) ==
    IF Len(prices) < period + 1 THEN Real(50)
    ELSE LET avgGain == FDiv(Real(sumChanges(prices, period, TRUE)),
                             Real(period))
             avgLoss == FDiv(Real(sumChanges(prices, period, FALSE)),
                             Real(period))
         IN  IF FEq(avgLoss, Real(0))
             THEN (IF FEq(avgGain, Real(0)) THEN Real(50) ELSE Real(100))
             ELSE FSub(Real(100),
                       FDiv(Real(100), FAdd(Real(1), FDiv(avgGain, avgLoss))))

calculateRSI(prices, period) ==
    IF Len(prices) < period + 1 THEN Real(50)
    ELSE LET avgGain == FDiv(Real(sumChanges(prices, period, TRUE)),
                             Real(period))
             avgLoss == FDiv(Real(sumChanges(prices, period, FALSE)),
                             Real(period))
         IN  IF FEq(avgLoss, Real(0)) THEN Real(100)
             ELSE FSub(Real(100),
                       FDiv(Real(100), FAdd(Real(1), FDiv(avgGain, avgLoss))))

calculateMomentum(prices, period) ==
    IF Len(prices) < period + 1 THEN Real(0)
    ELSE LET current == prices[Len(prices)]
             past    == prices[Len(prices) - period]
         IN  FMul(FDiv(Real(current - past), Real(past)), Real(100))

\* variance += diff * diff over the last `period` prices.  With the mean
\* num / den each diff is (price * den - num) / den: this is the sum of the
\* squares of the numerators, the variance sum times den * den.
RECURSIVE sumSquares(_, _, _)
sumSquares(prices, period, mean) ==
    IF period = 0 THEN 0
    ELSE (prices[Len(prices) - period + 1] * mean.den - mean.num)
             * (prices[Len(prices) - period + 1] * mean.den - mean.num)
         + sumSquares(prices, period - 1, mean)

calculateVolatility(prices, period) ==
    IF Len(prices) < period + 1 THEN Real(0)
    ELSE rootTimes(sqrtOver(FDiv(Ratio(sumSquares(prices, period,
                                                  calculateSMA(prices, period)),
                                       calculateSMA(prices, period).den
                                           * calculateSMA(prices, period).den),
                                 Real(period)),
                            calculateSMA(prices, period)),
                   100)

\* ------------------------------------------------------- determineSignal
maTerm(sma_short, sma_long) ==
    IF FLess(sma_long, sma_short) THEN 1
    ELSE IF FLess(sma_short, sma_long) THEN -1
    ELSE 0

\* the second RSI test taken as rsi <= 40
rsiTerm_Inclusive(rsi) ==
    IF FLess(rsi, Real(30)) THEN 2
    ELSE IF ~FLess(Real(40), rsi) THEN 1
    ELSE IF FLess(Real(70), rsi) THEN -2
    ELSE IF FLess(Real(60), rsi) THEN -1
    ELSE 0

rsiTerm(rsi) ==
    IF FLess(rsi, Real(30)) THEN 2
    ELSE IF FLess(rsi, Real(40)) THEN 1
    ELSE IF FLess(Real(70), rsi) THEN -2
    ELSE IF FLess(Real(60), rsi) THEN -1
    ELSE 0

momentumTerm(momentum) ==
    IF FLess(Real(2), momentum) THEN 1
    ELSE IF FLess(momentum, Real(-2)) THEN -1
    ELSE 0

\* the score before the volatility filter
rawScore(sma_short, sma_long, rsi, momentum) ==
    maTerm(sma_short, sma_long) + rsiTerm(rsi) + momentumTerm(momentum)

\* the damper as a step toward zero that leaves a score of 0 alone
volatilityFilter_TowardZero(score, volatility) ==
    IF FLess(Root(5), volatility)
    THEN IF score > 0 THEN score - 1
         ELSE IF score < 0 THEN score + 1 ELSE score
    ELSE score

\* if (volatility > 5.0) score = (score > 0) ? score - 1 : score + 1;
volatilityFilter(score, volatility) ==
    IF FLess(Root(5), volatility)
    THEN IF score > 0 THEN score - 1 ELSE score + 1
    ELSE score

\* BUY taken from score 2 upward
signalOfScore_BuyAtTwo(score) ==
    IF score >= 3 THEN "STRONG_BUY"
    ELSE IF score >= 2 THEN "BUY"
    ELSE IF score <= -3 THEN "STRONG_SELL"
    ELSE IF score <= -1 THEN "SELL"
    ELSE "HOLD"

signalOfScore(score) ==
    IF score >= 3 THEN "STRONG_BUY"
    ELSE IF score >= 1 THEN "BUY"
    ELSE IF score <= -3 THEN "STRONG_SELL"
    ELSE IF score <= -1 THEN "SELL"
    ELSE "HOLD"

determineSignal(sma_short, sma_long, rsi, momentum, volatility, currentPrice) ==
    signalOfScore(volatilityFilter(rawScore(sma_short, sma_long, rsi, momentum),
                                   volatility))

calculateSignalStrength(sig, rsi, momentum) ==
    LET base  == Ratio(1, 2)
        bonus == IF sig \in {"STRONG_BUY", "STRONG_SELL"} THEN Ratio(3, 10)
                 ELSE IF sig \in {"BUY", "SELL"} THEN Ratio(1, 5)
                 ELSE Real(0)
        momentumStrength == stdMin(FDiv(stdAbs(momentum), Real(5)), Ratio(1, 5))
    IN  stdMin(FAdd(FAdd(base, bonus), momentumStrength), Real(1))

\* the reason is a string built by appending pieces; it is kept as the
\* sequence of its pieces
getSignalReason(sig, sma_short, sma_long, rsi, momentum) ==
    (IF FLess(sma_long, sma_short) THEN <<"MA^">>
     ELSE IF FLess(sma_short, sma_long) THEN <<"MAv">>
     ELSE <<>>)
    \o (IF FLess(rsi, Real(30)) THEN <<" RSI_OS">>
        ELSE IF FLess(Real(70), rsi) THEN <<" RSI_OB">>
        ELSE IF FLess(rsi, Real(50)) THEN <<" RSIv">>
        ELSE <<" RSI^">>)
    \o (IF FLess(Real(2), momentum) THEN <<" Mom^">>
        ELSE IF FLess(momentum, Real(-2)) THEN <<" Momv">>
        ELSE <<>>)

\* ------------------------------------------------ updatePrice, generateSignal
\* push_back, and pop_front when the size has passed MAX_HISTORY, with the
\* test taken as >=
updatePrice_PopAtMax(history, x) ==
    IF Len(Append(history, x)) >= MAX_HISTORY
    THEN Tail(Append(history, x))
    ELSE Append(history, x)

\* push_back, and pop_front when the size has passed MAX_HISTORY
updatePrice(history, x) ==
    IF Len(Append(history, x)) > MAX_HISTORY
    THEN Tail(Append(history, x))
    ELSE Append(history, x)

\* volumeHistory and vwapHistory never popped
updateSeries_NoPop(history, x, prices, price) == Append(history, x)

\* push_back on volumeHistory or vwapHistory, and pop_front when
\* priceHistory.size() has passed MAX_HISTORY
updateSeries(history, x, prices, price) ==
    IF Len(Append(prices, price)) > MAX_HISTORY
    THEN Tail(Append(history, x))
    ELSE Append(history, x)

getHistorySize == Len(priceHistory)

\* the fields `AlphaSignal signal;` leaves without a value
UninitFields == {"price", "sma_short", "sma_long", "rsi", "momentum",
                 "volatility"}

\* what an object without an initial value may hold
Indeterminate == {Real(0), Real(-1)}

InsufficientData == <<"Insufficient data">>

\* priceHistory.size() < LONG_MA_PERIOD, one sample too few
insufficient_OneLess(size) == size < LONG_MA_PERIOD

\* if (priceHistory.size() < LONG_MA_PERIOD + 1) return signal;
insufficient(size) == size < LONG_MA_PERIOD + 1

\* the AlphaSignal with the fields the indicators give
computedSignal(sma_short, sma_long, rsi, momentum, volatility, currentPrice) ==
    [signal     |-> determineSignal(sma_short, sma_long, rsi, momentum,
                                    volatility, currentPrice),
     strength   |-> calculateSignalStrength(
                        determineSignal(sma_short, sma_long, rsi, momentum,
                                        volatility, currentPrice),
                        rsi, momentum),
     reason     |-> getSignalReason(
                        determineSignal(sma_short, sma_long, rsi, momentum,
                                        volatility, currentPrice),
                        sma_short, sma_long, rsi, momentum),
     price      |-> currentPrice,
     sma_short  |-> sma_short,
     sma_long   |-> sma_long,
     rsi        |-> rsi,
     momentum   |-> momentum,
     volatility |-> volatility]

\* generateSignal() on the history `prices`; junk is what the fields without
\* a value hold
generateSignal(prices, junk) ==
    IF insufficient(Len(prices))
    THEN [signal     |-> "HOLD",
          strength   |-> Real(0),
          reason     |-> InsufficientData,
          price      |-> junk,
          sma_short  |-> junk,
          sma_long   |-> junk,
          rsi        |-> junk,
          momentum   |-> junk,
          volatility |-> junk]
    ELSE computedSignal(calculateSMA(prices, SHORT_MA_PERIOD),
                        calculateSMA(prices, LONG_MA_PERIOD),
                        calculateRSI(prices, RSI_PERIOD),
                        calculateMomentum(prices, MOMENTUM_PERIOD),
                        calculateVolatility(prices, VOLATILITY_PERIOD),
                        Real(prices[Len(prices)]))

NoSignal     == [on |-> FALSE]
\* no message has been handled
NoFeed       == [outcome |-> "none", dropped |-> FALSE, msg |-> [json |-> FALSE]]
\* the feed callback's thread and the threads that read the book and the
\* signal engine meanwhile
LockThreads  == {"adapter", "reader1", "reader2"}
\* a thread that is in no call
NoLocal      == [lastPrice |-> 0, vwap |-> Zero, volume |-> 0, size |-> 0]
Outside      == [op |-> "none", pc |-> "idle", line |-> 0, local |-> NoLocal]
NoIndicators == [on |-> FALSE]
NoScore      == [on |-> FALSE]

\* ------------------------------------------------------------- the machine
InitBook ==
    /\ heap = <<>>
    /\ bids = << >>
    /\ asks = << >>
    /\ lastTradePrice = 0
    /\ totalVolumeTraded = 0
    /\ cumulativeNotional = 0
    /\ call = NoCall
    /\ fills = <<>>
    /\ fillCount = 0
    /\ allFillsQty = 0
    /\ allFillsNotional = 0
    /\ rested = <<>>
    /\ restClock = 0
    /\ mtx = {}
    /\ pc = [t \in Threads |-> "idle"]
    /\ frame = [t \in Submitters |-> NoFrame]
    /\ inflight = NoFlight
    /\ obs = NoObs
    /\ snap = <<>>
    /\ seen = {Metrics}

InitEngine ==
    /\ priceHistory = <<>>
    /\ volumeHistory = <<>>
    /\ vwapHistory = <<>>
    /\ updates = 0
    /\ signal = NoSignal

InitScore ==
    /\ indicators = NoIndicators
    /\ scored = NoScore

\* ------------------------------------------------------------- Logger
\* enum class LogLevel
DEBUG == 0
INFO  == 1
ERROR == 3
FATAL == 4
LogLevels == DEBUG .. FATAL

\* main() is the only thread before startLiveFeed
MainThread == "main"

\* the statement of main() that follows the one at `line` (src/main.cpp)
afterLine(line) ==
    CASE line = 253 -> 254
      [] line = 254 -> 255
      [] line = 255 -> 257
      [] line = 257 -> 258
      [] line = 258 -> 259
      [] line = 259 -> 260
      [] line = 260 -> 272

\* lock() on a std::mutex the calling thread already owns is undefined: the
\* thread waits for itself for ever, or the library reports
\* resource_deadlock_would_occur, or the lock is taken as if it were free
RelockOutcomes == {"blocked", "throws", "acquired"}
\* unlock() on a std::mutex the calling thread does not own is undefined too
UnlockOutcomes == {"returns", "aborts"}

InitLogger ==
    /\ logger = [instance     |-> FALSE,
                 currentLevel |-> INFO,
                 logToFile    |-> FALSE,
                 logToConsole |-> TRUE,
                 isOpen       |-> FALSE]
    /\ mutex_ = {}
    /\ main = [line |-> 253, fn |-> "main", at |-> 0, level |-> INFO,
               status |-> "running"]

\* the frame of every step of main(): the book, the engine and the adapter
\* do not exist yet
LoggerFrame ==
    UNCHANGED <<bookVars, threadVars, readerVars, engineVars, scoreVars,
                adapterVars>>

\* if (level < currentLevel) return;
writeLogSkips(level, currentLevel) == level < currentLevel

\* main() after the Logger function it called has returned
returned ==
    IF main.line = 255 /\ main.fn = "writeLog"
    THEN [main EXCEPT !.fn = "enableFileLogging", !.at = 112]
    ELSE [main EXCEPT !.fn = "main", !.at = 0, !.line = afterLine(@)]

\* Logger* logger = Logger::getInstance();
GetInstance ==
    /\ main.status = "running" /\ main.fn = "main" /\ main.line = 253
    /\ mutex_ = {}
    /\ logger' = [logger EXCEPT !.instance = TRUE]
    /\ main' = returned
    /\ UNCHANGED mutex_
    /\ LoggerFrame

\* logger->setLogLevel(level);   main() passes INFO, or DEBUG "for more
\* verbose logging"
SetLogLevel(level) ==
    /\ main.status = "running" /\ main.fn = "main" /\ main.line = 254
    /\ mutex_ = {}
    /\ logger' = [logger EXCEPT !.currentLevel = level]
    /\ main' = returned
    /\ UNCHANGED mutex_
    /\ LoggerFrame

\* logger->enableFileLogging("apexlob.log"): its lock_guard takes mutex_
EnableFileLoggingLock ==
    /\ main.status = "running" /\ main.fn = "main" /\ main.line = 255
    /\ mutex_ = {}
    /\ mutex_' = {MainThread}
    /\ main' = [main EXCEPT !.fn = "enableFileLogging", !.at = 101]
    /\ UNCHANGED logger
    /\ LoggerFrame

\* logFile.open(filePath, std::ios::app) succeeds or not; either way
\* writeLog is called
EnableFileLoggingOpen(ok) ==
    /\ main.status = "running"
    /\ main.fn = "enableFileLogging" /\ main.at = 101
    /\ logger' = [logger EXCEPT !.isOpen = ok,
                                !.logToFile = IF ok THEN TRUE ELSE @]
    /\ main' = [main EXCEPT !.fn = "writeLog", !.at = 57,
                            !.level = IF ok THEN INFO ELSE ERROR]
    /\ UNCHANGED mutex_
    /\ LoggerFrame

\* LOG_INFO(msg): Logger::getInstance()->info(msg) calls writeLog(INFO, msg)
LogInfo ==
    /\ main.status = "running" /\ main.fn = "main"
    /\ main.line \in {257, 258, 259, 260}
    /\ mutex_ = {}
    /\ main' = [main EXCEPT !.fn = "writeLog", !.at = 57, !.level = INFO]
    /\ UNCHANGED <<logger, mutex_>>
    /\ LoggerFrame

\* if (level < currentLevel) return;
WriteLogCheck ==
    /\ main.status = "running" /\ main.fn = "writeLog" /\ main.at = 57
    /\ main' = IF writeLogSkips(main.level, logger.currentLevel)
               THEN returned
               ELSE [main EXCEPT !.at = 59]
    /\ UNCHANGED <<logger, mutex_>>
    /\ LoggerFrame

\* std::lock_guard<std::mutex> lock(mutex_); in writeLog
WriteLogLock(outcome) ==
    /\ main.status = "running" /\ main.fn = "writeLog" /\ main.at = 59
    /\ IF MainThread \notin mutex_
       THEN /\ outcome = "acquired"
            /\ mutex_' = {MainThread}
            /\ main' = [main EXCEPT !.at = 61]
       ELSE /\ main' = CASE outcome = "blocked"
                               -> [main EXCEPT !.status = "blocked"]
                         [] outcome = "throws"
                               -> [main EXCEPT !.status = "terminated"]
                         [] outcome = "acquired"
                               -> [main EXCEPT !.at = 61]
            /\ UNCHANGED mutex_
    /\ UNCHANGED logger
    /\ LoggerFrame

\* the line is written to the console and the file; the lock_guard of
\* writeLog releases mutex_
WriteLogReturn ==
    /\ main.status = "running" /\ main.fn = "writeLog" /\ main.at = 61
    /\ mutex_' = {}
    /\ main' = returned
    /\ UNCHANGED logger
    /\ LoggerFrame

\* enableFileLogging returns: its lock_guard releases mutex_
EnableFileLoggingReturn(outcome) ==
    /\ main.status = "running"
    /\ main.fn = "enableFileLogging" /\ main.at = 112
    /\ IF MainThread \in mutex_
       THEN /\ outcome = "returns"
            /\ main' = [main EXCEPT !.fn = "main", !.at = 0,
                                    !.line = afterLine(@)]
       ELSE main' = IF outcome = "returns"
                    THEN [main EXCEPT !.fn = "main", !.at = 0,
                                      !.line = afterLine(@)]
                    ELSE [main EXCEPT !.status = "terminated"]
    /\ mutex_' = {}
    /\ UNCHANGED logger
    /\ LoggerFrame

NextLogger ==
    \/ GetInstance
    \/ \E level \in LogLevels : SetLogLevel(level)
    \/ EnableFileLoggingLock
    \/ \E ok \in BOOLEAN : EnableFileLoggingOpen(ok)
    \/ LogInfo
    \/ WriteLogCheck
    \/ \E outcome \in RelockOutcomes : WriteLogLock(outcome)
    \/ WriteLogReturn
    \/ \E outcome \in UnlockOutcomes : EnableFileLoggingReturn(outcome)

InitAdapter ==
    /\ feed = NoFeed
    /\ signalMtx = {}
    /\ at = [t \in LockThreads |-> Outside]

Init == InitBook /\ InitEngine /\ InitScore /\ InitAdapter /\ InitLogger

\* main() is the only thread and nothing stops it but itself
SpecLogger == Init /\ [][NextLogger]_vars /\ WF_loggerVars(NextLogger)

RECURSIVE LogQty(_)
LogQty(log) == IF log = <<>> THEN 0 ELSE Head(log).quantity + LogQty(Tail(log))

RECURSIVE LogNotional(_)
LogNotional(log) ==
    IF log = <<>> THEN 0
    ELSE Head(log).price * Head(log).quantity + LogNotional(Tail(log))

\* the state when a call of submitOrder on the object `ref` of heap h has
\* returned with the result res
Commit(res, h, ref, rst, again) ==
    /\ heap' = res.heap
    /\ bids' = res.bids
    /\ asks' = res.asks
    /\ lastTradePrice' = res.lastTradePrice
    /\ totalVolumeTraded' = res.totalVolumeTraded
    /\ cumulativeNotional' = res.cumulativeNotional
    /\ call' = [ref |-> ref, side |-> h[ref].side, price |-> h[ref].price,
                qty0 |-> h[ref].quantity, again |-> again]
    /\ fills' = res.log
    /\ fillCount' = fillCount + Len(res.log)
    /\ allFillsQty' = allFillsQty + LogQty(res.log)
    /\ allFillsNotional' = allFillsNotional + LogNotional(res.log)
    /\ rested' = IF res.rests
                 THEN [rst EXCEPT ![ref] = [init |-> @.init,
                                            qty  |-> res.heap[ref].quantity,
                                            at   |-> restClock + 1]]
                 ELSE rst
    /\ restClock' = IF res.rests THEN restClock + 1 ELSE restClock

\* a call of submitOrder on the object `ref` of heap h
Apply(h, ref, rst, again) ==
    Commit(submitOrder(h, ref, rst), h, ref, rst, again)

\* auto o = std::make_shared<Order>(id, price, qty, side); ob.submitOrder(o);
SubmitNew(price, qty, side) ==
    /\ Len(heap) < MaxOrders
    /\ Apply(Append(heap, Order(price, qty, side)), Len(heap) + 1,
             Append(rested, [init |-> qty, qty |-> 0, at |-> 0]), FALSE)
    /\ UNCHANGED <<threadVars, readerVars, otherVars>>

\* ob.submitOrder(o) again on an Order object the book no longer holds (it
\* was filled completely: remaining quantity 0)
SubmitAgain(ref) ==
    /\ ref \in 1 .. Len(heap)
    /\ heap[ref].quantity = 0
    /\ Apply(heap, ref, rested, TRUE)
    /\ UNCHANGED <<threadVars, readerVars, otherVars>>

Next ==
    \/ \E price \in Prices, qty \in Quantities, side \in Sides :
           SubmitNew(price, qty, side)
    \/ \E ref \in 1 .. MaxOrders : SubmitAgain(ref)

Spec == Init /\ [][Next]_vars

\* Longer behaviours of fewer kinds of orders: every order is made with the
\* smallest or the largest quantity (src/test_edge_cases.cpp,
\* testOrderBookVeryLargeQuantities), so that the 32-bit counters of the book
\* are driven to their limit.
LargeQuantities == {1, UintMax}

SubmitLarge(price, qty, side) ==
    /\ Len(heap) < MaxLargeOrders
    /\ Apply(Append(heap, Order(price, qty, side)), Len(heap) + 1,
             Append(rested, [init |-> qty, qty |-> 0, at |-> 0]), FALSE)
    /\ UNCHANGED <<threadVars, readerVars, otherVars>>

NextLarge ==
    \E price \in Prices, qty \in LargeQuantities, side \in Sides :
        SubmitLarge(price, qty, side)

SpecLarge == Init /\ [][NextLarge]_vars

\* Behaviours in which every Order object is submitted once, with quantities
\* that leave part of an order: 2 against 1 fills one order and goes on to
\* the next order or the next level.
OnceQuantities == {0, 1, 2}

SubmitOnce(price, qty, side) ==
    /\ Len(heap) < MaxOrders
    /\ Apply(Append(heap, Order(price, qty, side)), Len(heap) + 1,
             Append(rested, [init |-> qty, qty |-> 0, at |-> 0]), FALSE)
    /\ UNCHANGED <<threadVars, readerVars, otherVars>>

NextOnce ==
    \E price \in Prices, qty \in OnceQuantities, side \in Sides :
        SubmitOnce(price, qty, side)

SpecOnce == Init /\ [][NextOnce]_vars

\* An Order object handed to submitOrder while the book still holds it: the
\* caller keeps its shared_ptr after the first call and passes it again.
MaxResubmits == 2       \* more calls of addLimit than Order objects

\* the object `ref` is in a queue of its side of the book
isResting(ref) ==
    LET own == IF heap[ref].side = "Buy" THEN bids ELSE asks
    IN  \E p \in DOMAIN own :
            \E i \in 1 .. Len(own[p].orders) : own[p].orders[i] = ref

\* ob.submitOrder(o) again on an Order object that rests in the book
SubmitResting(ref) ==
    /\ ref \in 1 .. Len(heap)
    /\ isResting(ref)
    /\ restClock < MaxOrders + MaxResubmits
    /\ Apply(heap, ref, rested, TRUE)
    /\ UNCHANGED <<threadVars, readerVars, otherVars>>

NextResubmit ==
    \/ \E price \in Prices, qty \in OnceQuantities, side \in Sides :
           SubmitOnce(price, qty, side)
    \/ \E ref \in 1 .. MaxOrders : SubmitResting(ref)

SpecResubmit == Init /\ [][NextResubmit]_vars

\* ------------------------------------------------- threads on one book
\* Threads call submitOrder and the getters of one OrderBook.  A call is a
\* sequence of steps, one per lock operation, loop test and loop body; the
\* steps of different threads interleave freely.  The book is changed in
\* place, fill by fill, as matchOrder changes it.

\* std::lock_guard<std::mutex> lock(mtx) of a getter, taken without waiting
getterLock_NoWait(m) == TRUE

\* std::lock_guard<std::mutex> lock(mtx) of a getter: returns when no thread
\* holds mtx
getterLock(m) == m = {}

\* std::lock_guard<std::mutex> lock(mtx) of submitOrder
submitOrderLock(m) == m = {}

\* the state matchOrder works on, for the call of thread t
Working(t) ==
    [heap |-> heap,
     opp  |-> IF heap[frame[t].ref].side = "Buy" THEN asks ELSE bids,
     lastTradePrice |-> lastTradePrice,
     totalVolumeTraded |-> totalVolumeTraded,
     cumulativeNotional |-> cumulativeNotional,
     rested |-> rested,
     log  |-> fills,
     oi   |-> frame[t].oi]

\* thread t has called submitOrder and waits for mtx
SubmitCall(t) ==
    /\ pc[t] = "idle"
    /\ Len(heap) + Cardinality({u \in Submitters : pc[u] = "lock"})
          < MaxThreadOrders
    /\ pc' = [pc EXCEPT ![t] = "lock"]
    /\ UNCHANGED <<bookVars, mtx, frame, inflight, obs, readerVars, otherVars>>

\* submitOrder(order) of thread t gets mtx and enters matchOrder; order is a
\* new Order(price, qty, side)
SubmitLock(t, price, qty, side) ==
    /\ pc[t] = "lock"
    /\ submitOrderLock(mtx)
    /\ mtx' = mtx \cup {t}
    /\ heap' = Append(heap, Order(price, qty, side))
    /\ rested' = Append(rested, [init |-> qty, qty |-> 0, at |-> 0])
    /\ call' = [ref |-> Len(heap) + 1, side |-> side, price |-> price,
                qty0 |-> qty, again |-> FALSE]
    /\ fills' = <<>>
    /\ frame' = [frame EXCEPT ![t] =
                    [ref  |-> Len(heap) + 1,
                     keys |-> IF side = "Buy" THEN asksOrder(asks)
                                              ELSE bidsOrder(bids),
                     i    |-> 1,
                     oi   |-> 1]]
    /\ pc' = [pc EXCEPT ![t] = "levels"]
    /\ inflight' = [on   |-> TRUE,
                    by   |-> t,
                    pre  |-> Metrics,
                    post |-> submitOrder(Append(heap, Order(price, qty, side)),
                                         Len(heap) + 1,
                                         Append(rested, [init |-> qty,
                                                         qty |-> 0, at |-> 0]))]
    /\ UNCHANGED <<bids, asks, lastTradePrice, totalVolumeTraded,
                   cumulativeNotional, fillCount, allFillsQty,
                   allFillsNotional, restClock, obs, readerVars, otherVars>>

\* the test of the outer while loop of matchOrder, and the break
MatchLevels(t) ==
    /\ pc[t] = "levels"
    /\ IF whileLevels(Working(t), frame[t].ref, frame[t].keys, frame[t].i)
       THEN /\ pc' = [pc EXCEPT ![t] = "orders"]
            /\ frame' = [frame EXCEPT ![t].oi = enterLevel(Working(t)).oi]
       ELSE /\ pc' = [pc EXCEPT ![t] = "rest"]
            /\ frame' = frame
    /\ UNCHANGED <<bookVars, mtx, inflight, obs, readerVars, otherVars>>

\* the book after a step of matchOrder of thread t that left the state m
Store(t, m) ==
    /\ heap' = m.heap
    /\ IF heap[frame[t].ref].side = "Buy"
       THEN asks' = m.opp /\ bids' = bids
       ELSE bids' = m.opp /\ asks' = asks
    /\ lastTradePrice' = m.lastTradePrice
    /\ totalVolumeTraded' = m.totalVolumeTraded
    /\ cumulativeNotional' = m.cumulativeNotional
    /\ fills' = m.log
    /\ fillCount' = fillCount + (Len(m.log) - Len(fills))
    /\ allFillsQty' = allFillsQty + (LogQty(m.log) - LogQty(fills))
    /\ allFillsNotional' =
          allFillsNotional + (LogNotional(m.log) - LogNotional(fills))
    /\ UNCHANGED <<call, rested, restClock>>

\* the test of the inner while loop holds: one fill
MatchFill(t) ==
    /\ pc[t] = "orders"
    /\ whileOrders(Working(t), frame[t].ref, frame[t].keys[frame[t].i])
    /\ Store(t, fillOrder(Working(t), frame[t].ref, frame[t].keys[frame[t].i]))
    /\ frame' = [frame EXCEPT ![t].oi =
                    fillOrder(Working(t), frame[t].ref,
                              frame[t].keys[frame[t].i]).oi]
    /\ UNCHANGED <<mtx, pc, inflight, obs, readerVars, otherVars>>

\* the test of the inner while loop fails: the level is erased if it is
\* empty, and `it` moves on
MatchLeave(t) ==
    /\ pc[t] = "orders"
    /\ ~whileOrders(Working(t), frame[t].ref, frame[t].keys[frame[t].i])
    /\ Store(t, leaveLevel(Working(t), frame[t].keys[frame[t].i]))
    /\ frame' = [frame EXCEPT ![t].i = @ + 1]
    /\ pc' = [pc EXCEPT ![t] = "levels"]
    /\ UNCHANGED <<mtx, inflight, obs, readerVars, otherVars>>

\* if (order->quantity > 0) addLimit(order);
SubmitRest(t) ==
    /\ pc[t] = "rest"
    /\ IF restsAfterMatch(heap[frame[t].ref])
       THEN /\ IF heap[frame[t].ref].side = "Buy"
               THEN bids' = addLimit(heap, frame[t].ref, bids) /\ asks' = asks
               ELSE asks' = addLimit(heap, frame[t].ref, asks) /\ bids' = bids
            /\ rested' = [rested EXCEPT ![frame[t].ref] =
                             [init |-> @.init,
                              qty  |-> heap[frame[t].ref].quantity,
                              at   |-> restClock + 1]]
            /\ restClock' = restClock + 1
       ELSE UNCHANGED <<bids, asks, rested, restClock>>
    /\ pc' = [pc EXCEPT ![t] = "unlock"]
    /\ UNCHANGED <<heap, lastTradePrice, totalVolumeTraded,
                   cumulativeNotional, call, fills, fillCount, allFillsQty,
                   allFillsNotional, mtx, frame, inflight, obs, readerVars, otherVars>>

\* submitOrder returns: the lock_guard releases mtx.  A getter value that was
\* returned while this call held mtx now has its post-submit value to
\* compare with.
SubmitUnlock(t) ==
    /\ pc[t] = "unlock"
    /\ mtx' = mtx \ {t}
    /\ pc' = [pc EXCEPT ![t] = "idle"]
    /\ frame' = [frame EXCEPT ![t] = NoFrame]
    /\ inflight' = NoFlight
    /\ obs' = IF obs.on /\ obs.pending
              THEN [obs EXCEPT !.pending = FALSE, !.post = get(obs.getter)]
              ELSE obs
    /\ UNCHANGED <<bookVars, readerVars, otherVars>>

\* reader r has called a getter and waits for mtx
GetterCall(r) ==
    /\ pc[r] = "idle"
    /\ pc' = [pc EXCEPT ![r] = "lock"]
    /\ obs' = NoObs
    /\ UNCHANGED <<bookVars, mtx, frame, inflight, readerVars, otherVars>>

\* the lock_guard of the getter gets mtx
GetterLock(r) ==
    /\ pc[r] = "lock"
    /\ getterLock(mtx)
    /\ mtx' = mtx \cup {r}
    /\ pc' = [pc EXCEPT ![r] = "read"]
    /\ UNCHANGED <<bookVars, frame, inflight, obs, readerVars, otherVars>>

\* the getter g reads its value and returns it, releasing mtx
GetterReturn(r, g) ==
    /\ pc[r] = "read"
    /\ obs' = [on      |-> TRUE,
               getter  |-> g,
               value   |-> get(g),
               pre     |-> IF inflight.on THEN inflight.pre[g] ELSE get(g),
               post    |-> get(g),
               pending |-> inflight.on]
    /\ mtx' = mtx \ {r}
    /\ pc' = [pc EXCEPT ![r] = "idle"]
    /\ UNCHANGED <<bookVars, frame, inflight, readerVars, otherVars>>

NextThreads ==
    \/ \E t \in Submitters : SubmitCall(t)
    \/ \E t \in Submitters, price \in Prices, qty \in LargeQuantities,
          side \in Sides : SubmitLock(t, price, qty, side)
    \/ \E t \in Submitters : MatchLevels(t)
    \/ \E t \in Submitters : MatchFill(t)
    \/ \E t \in Submitters : MatchLeave(t)
    \/ \E t \in Submitters : SubmitRest(t)
    \/ \E t \in Submitters : SubmitUnlock(t)
    \/ \E r \in Readers : GetterCall(r)
    \/ \E r \in Readers : GetterLock(r)
    \/ \E r \in Readers, g \in Getters : GetterReturn(r, g)

SpecThreads == Init /\ [][NextThreads]_vars

\* A thread that holds mtx inside submitOrder is running: it waits for
\* nothing there, so the scheduler lets it take its next step.
Running(t) ==
    \/ MatchLevels(t)
    \/ MatchFill(t)
    \/ MatchLeave(t)
    \/ SubmitRest(t)
    \/ SubmitUnlock(t)

\* the getter returns and its lock_guard releases mtx; the value goes to the
\* caller and is kept nowhere
GetterLeave(r) ==
    /\ pc[r] = "read"
    /\ mtx' = mtx \ {r}
    /\ pc' = [pc EXCEPT ![r] = "idle"]
    /\ UNCHANGED <<bookVars, frame, inflight, obs, readerVars, otherVars>>

\* limit prices of the orders of the fair run
FairPrices == {1, 2}
\* the thread that submits in the fair run
Submitter == "s1"

\* one thread submits orders while another calls getters
NextFair ==
    \/ SubmitCall(Submitter)
    \/ \E price \in FairPrices, qty \in LargeQuantities, side \in Sides :
          SubmitLock(Submitter, price, qty, side)
    \/ Running(Submitter)
    \/ \E r \in Readers : GetterCall(r)
    \/ \E r \in Readers : GetterLock(r)
    \/ \E r \in Readers : GetterLeave(r)

SpecFair ==
    /\ Init
    /\ [][NextFair]_vars
    /\ WF_<<pc, mtx, fills>>(Running(Submitter))

\* ------------------------------------------- a reader of several getters
\* the getters a reader calls one after another to collect the metrics
SnapshotOrder == <<"getLastTradePrice", "getVWAP", "getTotalVolume",
                   "getCumulativeNotional">>

\* another thread makes a whole call of submitOrder (it holds mtx from its
\* first step to its last)
SnapshotSubmit(price, qty, side) ==
    /\ Len(heap) < MaxOrders
    /\ Apply(Append(heap, Order(price, qty, side)), Len(heap) + 1,
             Append(rested, [init |-> qty, qty |-> 0, at |-> 0]), FALSE)
    /\ seen' = seen \cup {Metrics'}
    /\ UNCHANGED <<threadVars, snap, otherVars>>

\* the reader makes the next getter call of its sequence: the getter takes
\* mtx, reads, and releases mtx when it returns
SnapshotRead ==
    /\ mtx = {}
    /\ snap' = IF Len(snap) = Len(SnapshotOrder)
               THEN <<get(SnapshotOrder[1])>>
               ELSE Append(snap, get(SnapshotOrder[Len(snap) + 1]))
    /\ UNCHANGED <<bookVars, threadVars, seen, otherVars>>

NextSnapshot ==
    \/ \E price \in Prices, qty \in Quantities, side \in Sides :
           SnapshotSubmit(price, qty, side)
    \/ SnapshotRead

SpecSnapshot == Init /\ [][NextSnapshot]_vars

\* ------------------------------------------------ the signal engine runs
\* generator.updatePrice(price, volume, vwap)
UpdatePrice(price, volume, vwap) ==
    /\ priceHistory' = updatePrice(priceHistory, price)
    /\ volumeHistory' = updateSeries(volumeHistory, volume, priceHistory, price)
    /\ vwapHistory' = updateSeries(vwapHistory, vwap, priceHistory, price)
    /\ updates' = updates + 1
    /\ signal' = NoSignal
    /\ UNCHANGED <<bookVars, threadVars, readerVars, scoreVars, loggerVars, adapterVars>>

\* AlphaSignal signal = generator.generateSignal();
GenerateSignal(junk) ==
    /\ signal' = [on      |-> TRUE,
                  samples |-> Len(priceHistory),
                  result  |-> generateSignal(priceHistory, junk)]
    /\ UNCHANGED <<bookVars, threadVars, readerVars, scoreVars, loggerVars, adapterVars,
                   priceHistory, volumeHistory, vwapHistory, updates>>

\* Short feeds of few prices: the price changes at most MaxChanges times and
\* the history is just long enough for every indicator.
SignalPrices == (-MaxSignalPrice) .. MaxSignalPrice

\* generator.updatePrice(price, 1000.0, price)
TestVolume == 1000

RECURSIVE Changes(_)
Changes(prices) ==
    IF Len(prices) < 2 THEN 0
    ELSE (IF prices[1] # prices[2] THEN 1 ELSE 0) + Changes(Tail(prices))

FeedPrice(price) ==
    /\ Len(priceHistory) < LONG_MA_PERIOD + ExtraSamples
    /\ Changes(Append(priceHistory, price)) <= MaxChanges
    /\ UpdatePrice(price, TestVolume, price)

NextSignal ==
    \/ \E price \in SignalPrices : FeedPrice(price)
    \/ \E junk \in Indeterminate : GenerateSignal(junk)

SpecSignal == Init /\ [][NextSignal]_vars

\* A long feed: the k-th sample is k in the three series, and the feed goes
\* on past MAX_HISTORY samples.
FeedTape ==
    /\ updates < MAX_HISTORY + MaxOverflow
    /\ UpdatePrice(updates + 1, updates + 1, updates + 1)

NextHistory ==
    \/ FeedTape
    \/ \E junk \in Indeterminate : GenerateSignal(junk)

SpecHistory == Init /\ [][NextHistory]_vars

\* A feed in equal steps, as the loops of the tests build it: sample i is
\* start + i * step.  Step 0 is a constant price.
basePrice == 100
TrendStarts == {1, basePrice}
TrendSteps  == 0 .. MaxStep

\* generator.updatePrice(basePrice + i * step, 1000.0, basePrice + i * step)
FeedTrend(start, step) ==
    /\ Len(priceHistory) < LONG_MA_PERIOD + ExtraSamples
    /\ Len(priceHistory) >= 1 => start = priceHistory[1]
    /\ Len(priceHistory) >= 2 => step = priceHistory[2] - priceHistory[1]
    /\ UpdatePrice(start + Len(priceHistory) * step, TestVolume,
                   start + Len(priceHistory) * step)

NextTrend ==
    \/ \E start \in TrendStarts, step \in TrendSteps : FeedTrend(start, step)
    \/ \E junk \in Indeterminate : GenerateSignal(junk)

SpecTrend == Init /\ [][NextTrend]_vars

\* The oversold rally of the tests: RallyDip prices basePrice - 0.8 i, then
\* RallyRecovery prices basePrice - RallyDip * 0.8 + 1.5 i.  The prices of
\* this feed are counted in tenths.
RallyDip      == 20
RallyRecovery == 15

\* prices[k], k from 0
RallyPrice(k) ==
    IF k < RallyDip THEN 10 * basePrice - k * 8
    ELSE 10 * basePrice - RallyDip * 8 + (k - RallyDip) * 15

\* generator.updatePrice(price, 1000.0, price) for the next price of the rally
FeedRally ==
    /\ Len(priceHistory) < RallyDip + RallyRecovery
    /\ UpdatePrice(RallyPrice(Len(priceHistory)), TestVolume,
                   RallyPrice(Len(priceHistory)))

NextRally ==
    \/ FeedRally
    \/ \E junk \in Indeterminate : GenerateSignal(junk)

SpecRally == Init /\ [][NextRally]_vars

\* ------------------------------------------------------ the feed adapter
\* The message callback of startLiveFeed (src/main.cpp), run by one thread,
\* message by message.  A message is the text received: whether it is JSON,
\* the fields of the object, and what each field holds.  The string of a
\* price or of a quantity is a decimal number ("1"), a number followed by
\* other characters ("1abc"), a text that starts with no number ("abc") or a
\* number too large for a double ("1e999").  The events are trades: a price
\* is positive.  A quantity is counted in units of 0.0005.
Fields == {"p", "q", "m", "a"}

Number(v) == [kind |-> "number", value |-> v]
Prefix(v) == [kind |-> "prefix", value |-> v]
Text      == [kind |-> "text"]
Huge      == [kind |-> "huge"]

\* the prices of the trades
FeedPrices == {1, 2}

\* "0.0005", "0.0010", "0.0015"
QtyStrings == 1 .. 3

WellFormed ==
    [json : {TRUE}, fields : {Fields},
     p : {Number(v) : v \in FeedPrices}, q : {Number(v) : v \in QtyStrings},
     m : {"true", "false"}, a : {"id"}]

BaseMessage ==
    [json |-> TRUE, fields |-> Fields, p |-> Number(1), q |-> Number(2),
     m |-> "true", a |-> "id"]

\* one thing wrong with a message: not JSON, a field missing, a price or a
\* quantity std::stod rejects, an "m" that is no boolean, an "a" that is no
\* integer
Malformed ==
    {[BaseMessage EXCEPT !.json = FALSE]}
    \cup {[BaseMessage EXCEPT !.fields = Fields \ {f}] : f \in Fields}
    \cup {[BaseMessage EXCEPT !.p = s] : s \in {Text, Huge}}
    \cup {[BaseMessage EXCEPT !.q = s] : s \in {Text, Huge}}
    \cup {[BaseMessage EXCEPT !.m = "text"], [BaseMessage EXCEPT !.a = "text"]}

\* a price or a quantity with characters after the number
Trailing ==
    {[BaseMessage EXCEPT !.p = Prefix(1)], [BaseMessage EXCEPT !.q = Prefix(2)]}

Messages == WellFormed \cup Trailing \cup Malformed

\* what a message is like, leaving out the numbers in it
shapeOf(msg) ==
    [json   |-> msg.json,
     fields |-> msg.fields,
     p      |-> msg.p.kind,
     q      |-> msg.q.kind,
     m      |-> IF msg.m \in {"true", "false"} THEN "bool" ELSE msg.m,
     a      |-> msg.a]

\* the check on "a" left out
hasFields_NoTradeId(msg) == {"p", "q", "m"} \subseteq msg.fields

\* j.contains("p") && j.contains("q") && j.contains("m") && j.contains("a")
hasFields(msg) == Fields \subseteq msg.fields

\* static_cast<uint32_t>(quantity * 1000), for a quantity of q units of 0.0005
scaleQuantity(q) == (q \div 2) % UintMod

\* std::stod(const std::string&): the number the string starts with;
\* std::invalid_argument when it starts with none, std::out_of_range when
\* the number is not in the range of double
stod(s) ==
    IF s.kind \in {"number", "prefix"} THEN [ok |-> TRUE, value |-> s.value]
    ELSE IF s.kind = "huge" THEN [ok |-> FALSE, why |-> "std::out_of_range"]
    ELSE [ok |-> FALSE, why |-> "std::invalid_argument"]

\* json::parse and the reads of the four fields: the Order to submit, or the
\* reason why there is none
decode(msg) ==
    IF ~msg.json THEN [ok |-> FALSE, why |-> "json::parse_error"]
    ELSE IF ~hasFields(msg) THEN [ok |-> FALSE, why |-> "missing fields"]
    ELSE IF ~stod(msg.p).ok THEN stod(msg.p)
    ELSE IF ~stod(msg.q).ok THEN stod(msg.q)
    ELSE IF msg.m \notin {"true", "false"}
    THEN [ok |-> FALSE, why |-> "json::type_error"]
    ELSE IF msg.a # "id" THEN [ok |-> FALSE, why |-> "json::type_error"]
    ELSE [ok    |-> TRUE,
          order |-> Order(stod(msg.p).value,
                          scaleQuantity(stod(msg.q).value),
                          IF msg.m = "true" THEN "Sell" ELSE "Buy")]

\* the three getters called on the book as it was before the submitOrder call
readStats_BeforeSubmit(book) ==
    [lastPrice |-> getLastTradePrice,
     vwap      |-> getVWAP,
     volume    |-> getTotalVolume]

\* lastPrice = ob.getLastTradePrice(); vwap = ob.getVWAP();
\* volume = ob.getTotalVolume(); on the book the submitOrder call left
readStats(book) ==
    [lastPrice |-> book.lastTradePrice,
     vwap      |-> IF book.totalVolumeTraded > 0
                   THEN Quotient(book.cumulativeNotional,
                                 book.totalVolumeTraded)
                   ELSE Zero,
     volume    |-> book.totalVolumeTraded]

\* if (lastPrice > 0.0) signalGen.updatePrice(lastPrice, volume, vwap);
\* AlphaSignal signal = signalGen.generateSignal();
DisplayMetricsWithSignals(stats, junk) ==
    /\ IF stats.lastPrice > 0
       THEN /\ priceHistory' = updatePrice(priceHistory, stats.lastPrice)
            /\ volumeHistory' = updateSeries(volumeHistory, stats.volume, priceHistory,
                                            stats.lastPrice)
            /\ vwapHistory' = updateSeries(vwapHistory, stats.vwap, priceHistory,
                                          stats.lastPrice)
            /\ updates' = updates + 1
       ELSE UNCHANGED <<priceHistory, volumeHistory, vwapHistory, updates>>
    /\ signal' = [on      |-> TRUE,
                  samples |-> Len(priceHistory'),
                  result  |-> generateSignal(priceHistory', junk)]

\* ob.submitOrder(order) has returned the book res, and
\* displayMetricsWithSignals follows
Processed(res, h, ref, rst, msg, junk) ==
    /\ Commit(res, h, ref, rst, FALSE)
    /\ DisplayMetricsWithSignals(readStats(res), junk)
    /\ feed' = [outcome |-> "processed", dropped |-> feed.dropped,
                msg |-> shapeOf(msg)]

\* the callback on one message, from json::parse to its return
OnMessage(msg, junk) ==
    /\ IF decode(msg).ok
       THEN /\ Len(heap) < MaxFeedOrders
            /\ Processed(submitOrder(Append(heap, decode(msg).order),
                                     Len(heap) + 1,
                                     Append(rested,
                                            [init |-> decode(msg).order.quantity,
                                             qty |-> 0, at |-> 0])),
                         Append(heap, decode(msg).order), Len(heap) + 1,
                         Append(rested, [init |-> decode(msg).order.quantity,
                                         qty |-> 0, at |-> 0]),
                         msg, junk)
       ELSE /\ junk = Real(0)
            /\ feed' = [outcome |-> "dropped", dropped |-> TRUE,
                        msg |-> shapeOf(msg)]
            /\ UNCHANGED <<bookVars, engineVars>>
    /\ UNCHANGED <<threadVars, readerVars, scoreVars, loggerVars, signalMtx, at>>

NextAdapter ==
    \E msg \in Messages, junk \in Indeterminate : OnMessage(msg, junk)

SpecAdapter == Init /\ [][NextAdapter]_vars

\* ------------------------------------------------------ the two mutexes
\* The callback and two other threads, call by call: a thread calls a public
\* operation, waits for the mutex of the object, works holding it, and
\* returns, which releases it.  pc is "idle" outside a call, "lock" while
\* waiting, "in" while holding the mutex.
BookOps   == Getters \cup {"submitOrder", "displayMetrics"}
EngineOps == {"updatePrice", "generateSignal", "getHistorySize"}

\* what the threads other than the callback call
ReaderOps ==
    Getters \cup {"displayMetrics", "generateSignal", "getHistorySize"}

\* the call the callback makes at a line of src/main.cpp
opAt(line) ==
    CASE line = 170 -> "submitOrder"
      [] line = 46  -> "getLastTradePrice"
      [] line = 47  -> "getVWAP"
      [] line = 48  -> "getTotalVolume"
      [] line = 52  -> "updatePrice"
      [] line = 58  -> "generateSignal"
      [] line = 72  -> "getHistorySize"
      [] line = 86  -> "getHistorySize"

\* the line of the next call of the callback after the call at `line`; the
\* call of line 170 is that of the next message
nextLine(line, local) ==
    CASE line = 0   -> 170
      [] line = 170 -> 46
      [] line = 46  -> 47
      [] line = 47  -> 48
      [] line = 48  -> IF local.lastPrice > 0 THEN 52 ELSE 58
      [] line = 52  -> 58
      [] line = 58  -> 72
      [] line = 72  -> IF local.size >= LONG_MA_PERIOD + 1 THEN 170 ELSE 86
      [] line = 86  -> 170

\* std::lock_guard<std::mutex> lock(mtx): returns when no thread holds mtx
lockGuard(m) == m = {}

\* the lock_guard that does not unlock when the operation returns
unlockGuard_Held(m, t) == m

\* the end of the scope of the lock_guard
unlockGuard(m, t) == m \ {t}

\* thread t calls op and waits for the mutex of the object
LockCall(t, op) ==
    /\ at[t].pc = "idle"
    /\ IF t = "adapter"
       THEN /\ op = opAt(nextLine(at[t].line, at[t].local))
            /\ op = "submitOrder" => Len(heap) < MaxLockEvents
       ELSE op \in ReaderOps
    /\ at' = [at EXCEPT ![t] =
                 [@ EXCEPT !.op = op, !.pc = "lock",
                           !.line = IF t = "adapter"
                                    THEN nextLine(at[t].line, at[t].local)
                                    ELSE 0]]
    /\ UNCHANGED <<bookVars, threadVars, readerVars, engineVars, scoreVars, loggerVars,
                   feed, signalMtx>>

\* the lock_guard of the operation t has called gets the mutex
LockAcquire(t) ==
    /\ at[t].pc = "lock"
    /\ IF at[t].op \in BookOps
       THEN /\ lockGuard(mtx)
            /\ mtx' = mtx \cup {t}
            /\ UNCHANGED signalMtx
       ELSE /\ lockGuard(signalMtx)
            /\ signalMtx' = signalMtx \cup {t}
            /\ UNCHANGED mtx
    /\ at' = [at EXCEPT ![t].pc = "in"]
    /\ UNCHANGED <<bookVars, pc, frame, inflight, obs, readerVars,
                   engineVars, scoreVars, loggerVars, feed>>

\* the mutexes after the operation of t has returned
Release(t) ==
    IF at[t].op \in BookOps
    THEN mtx' = unlockGuard(mtx, t) /\ UNCHANGED signalMtx
    ELSE signalMtx' = unlockGuard(signalMtx, t) /\ UNCHANGED mtx

\* ob.submitOrder(order) of the callback returns, leaving the book res
AdapterSubmit(res, h, ref, rst) ==
    /\ at["adapter"].pc = "in"
    /\ at["adapter"].op = "submitOrder"
    /\ Commit(res, h, ref, rst, FALSE)
    /\ Release("adapter")
    /\ at' = [at EXCEPT !["adapter"].pc = "idle"]
    /\ UNCHANGED <<pc, frame, inflight, obs, readerVars, engineVars,
                   scoreVars, loggerVars, feed>>

AdapterSubmitReturn(price, side) ==
    AdapterSubmit(submitOrder(Append(heap, Order(price, 1, side)),
                              Len(heap) + 1,
                              Append(rested, [init |-> 1, qty |-> 0,
                                              at |-> 0])),
                  Append(heap, Order(price, 1, side)), Len(heap) + 1,
                  Append(rested, [init |-> 1, qty |-> 0, at |-> 0]))

\* a getter of the book called by displayMetricsWithSignals returns
AdapterGetterReturn ==
    /\ at["adapter"].pc = "in"
    /\ at["adapter"].op \in Getters
    /\ Release("adapter")
    /\ at' = [at EXCEPT !["adapter"] =
                 [@ EXCEPT !.pc = "idle",
                           !.local =
                               CASE at["adapter"].op = "getLastTradePrice"
                                        -> [@ EXCEPT !.lastPrice = getLastTradePrice]
                                 [] at["adapter"].op = "getVWAP"
                                        -> [@ EXCEPT !.vwap = getVWAP]
                                 [] at["adapter"].op = "getTotalVolume"
                                        -> [@ EXCEPT !.volume = getTotalVolume]
                                 [] OTHER -> @]]
    /\ UNCHANGED <<bookVars, pc, frame, inflight, obs, readerVars,
                   engineVars, scoreVars, loggerVars, feed>>

\* an operation of the signal generator called by displayMetricsWithSignals
\* returns
AdapterEngineReturn(junk) ==
    /\ at["adapter"].pc = "in"
    /\ at["adapter"].op \in EngineOps
    /\ Release("adapter")
    /\ CASE at["adapter"].op = "updatePrice" ->
              /\ priceHistory' =
                     updatePrice(priceHistory, at["adapter"].local.lastPrice)
              /\ volumeHistory' =
                     updateSeries(volumeHistory, at["adapter"].local.volume,
                                  priceHistory,
                                  at["adapter"].local.lastPrice)
              /\ vwapHistory' =
                     updateSeries(vwapHistory, at["adapter"].local.vwap,
                                  priceHistory,
                                  at["adapter"].local.lastPrice)
              /\ updates' = updates + 1
              /\ UNCHANGED signal
         [] at["adapter"].op = "generateSignal" ->
              /\ signal' = [on      |-> TRUE,
                            samples |-> Len(priceHistory),
                            result  |-> generateSignal(priceHistory, junk)]
              /\ UNCHANGED <<priceHistory, volumeHistory, vwapHistory,
                             updates>>
         [] at["adapter"].op = "getHistorySize" ->
              /\ junk = Real(0)
              /\ UNCHANGED engineVars
    /\ at' = [at EXCEPT !["adapter"] =
                 [@ EXCEPT !.pc = "idle",
                           !.local = IF at["adapter"].op = "getHistorySize"
                                     THEN [@ EXCEPT !.size = getHistorySize]
                                     ELSE @]]
    /\ UNCHANGED <<bookVars, pc, frame, inflight, obs, readerVars,
                   scoreVars, loggerVars, feed>>

\* the operation another thread has called returns
ReaderReturn(r) ==
    /\ r # "adapter"
    /\ at[r].pc = "in"
    /\ Release(r)
    /\ at' = [at EXCEPT ![r] = Outside]
    /\ UNCHANGED <<bookVars, pc, frame, inflight, obs, readerVars,
                   engineVars, scoreVars, loggerVars, feed>>

NextLocks ==
    \/ \E t \in LockThreads, op \in BookOps \cup EngineOps : LockCall(t, op)
    \/ \E t \in LockThreads : LockAcquire(t)
    \/ \E price \in Prices, side \in Sides : AdapterSubmitReturn(price, side)
    \/ AdapterGetterReturn
    \/ \E junk \in Indeterminate : AdapterEngineReturn(junk)
    \/ \E r \in LockThreads : ReaderReturn(r)

SpecLocks == Init /\ [][NextLocks]_vars

\* ----------------------------- determineSignal, calculateSignalStrength
\* the values the indicators are drawn from: each side of every threshold,
\* the thresholds, and what a division by zero leaves
SmaValues        == {Real(1), Real(2)}
RsiValues        == {Real(0), Real(29), Real(30), Real(39), Real(40), Real(50),
                     Real(60), Real(61), Real(70), Real(71), Real(100)}
MomentumValues   == {Real(-3), Real(-2), Real(0), Ratio(1, 2), Real(1),
                     Real(2), Real(3), NaN}
VolatilityValues == {Root(-1), Root(0), Root(5), Root(6), NaN}

IndicatorTuples ==
    [on : {TRUE}, sma_short : SmaValues, sma_long : SmaValues,
     rsi : RsiValues, momentum : MomentumValues,
     volatility : VolatilityValues, currentPrice : {Real(1)}]

InitIndicators ==
    /\ InitBook
    /\ InitEngine
    /\ InitAdapter
    /\ InitLogger
    /\ indicators \in IndicatorTuples
    /\ scored = NoScore

\* signal = determineSignal(...); strength = calculateSignalStrength(...)
Score ==
    /\ indicators.on
    /\ ~scored.on
    /\ scored' = [on |-> TRUE,
                  signal |-> determineSignal(
                      indicators.sma_short, indicators.sma_long,
                      indicators.rsi, indicators.momentum,
                      indicators.volatility, indicators.currentPrice),
                  strength |-> calculateSignalStrength(
                      determineSignal(
                          indicators.sma_short, indicators.sma_long,
                          indicators.rsi, indicators.momentum,
                          indicators.volatility, indicators.currentPrice),
                      indicators.rsi, indicators.momentum)]
    /\ UNCHANGED <<bookVars, threadVars, readerVars, engineVars, adapterVars,
                   loggerVars, indicators>>

NextScore == Score

SpecScore == InitIndicators /\ [][NextScore]_vars

\* ======================================================= the properties
Levels(sideMap) == {sideMap[p] : p \in DOMAIN sideMap}

\* C1: after any sequence of submitOrder calls no resting bid level is priced
\* above a resting ask level: when both sides are non-empty, best bid <= best
\* ask (the book is never crossed).
C1_NeverCrossed ==
    \A b \in DOMAIN bids, a \in DOMAIN asks : b <= a

\* both sides hold orders after a call that traded
C1_Witness ==
    /\ DOMAIN bids # {}
    /\ DOMAIN asks # {}
    /\ fills # <<>>

\* C2: for every price level on either side, level.totalVolume equals the sum
\* of the remaining quantities of the orders queued in the level.
C2_LevelVolumeIsSum ==
    \A level \in Levels(bids) \cup Levels(asks) :
        level.totalVolume = SumQty(heap, level.orders)

\* C3: totalVolumeTraded equals the sum of the quantities of all fills so far
\* and cumulativeNotional equals the sum over all fills of price * quantity.
C3_StatsAreFillSums ==
    /\ totalVolumeTraded = allFillsQty
    /\ cumulativeNotional = allFillsNotional

\* C4: getVWAP() is cumulativeNotional / totalVolumeTraded when
\* totalVolumeTraded > 0 and 0 when it is 0; it is 0 on a fresh book and on a
\* book that holds only unmatched resting orders.
C4_VWAPIsNotionalOverVolume ==
    /\ totalVolumeTraded > 0 =>
          /\ getVWAP.den > 0
          /\ getVWAP.num * totalVolumeTraded = cumulativeNotional * getVWAP.den
    /\ totalVolumeTraded = 0 => getVWAP = Zero
    /\ fillCount = 0 => getVWAP = Zero

\* fills at two prices: the average is not a whole price
C4_Witness ==
    /\ totalVolumeTraded > 0
    /\ getVWAP.den > 1

FillIdx == 1 .. Len(fills)

\* C5: every fill executes at the price of the resting level being hit, the
\* maker's price, and not at the aggressor's limit; getLastTradePrice() is 0
\* before any fill and, after a call that made fills, the price of the level
\* of the most recent fill.
C5_FillsAtMakerPrice ==
    /\ \A i \in FillIdx :
          /\ fills[i].price = fills[i].levelPrice
          /\ fills[i].price = fills[i].makerPrice
    /\ fillCount = 0 => getLastTradePrice = 0
    /\ fills # <<>> => getLastTradePrice = fills[Len(fills)].levelPrice

\* a fill at a price that is not the aggressor's limit
C5_Witness ==
    \E i \in FillIdx : fills[i].price # call.price

\* C6: within one call the aggressor is filled against the opposite levels
\* best first (highest bid first for a Sell, lowest ask first for a Buy): no
\* fill happens at a level while a strictly better opposite level still holds
\* resting quantity.
C6_PricePriority ==
    /\ \A i \in FillIdx : fills[i].better = 0
    /\ \A i, j \in FillIdx :
          i < j => IF call.side = "Sell"
                   THEN fills[i].levelPrice >= fills[j].levelPrice
                   ELSE fills[i].levelPrice <= fills[j].levelPrice

\* one call filled at two levels
C6_Witness ==
    \E i, j \in FillIdx : fills[i].levelPrice # fills[j].levelPrice

\* C7: among the orders resting at one price on one side, fills go in the
\* order in which the orders came to rest: an order is filled only when every
\* order that rested earlier at that price has been filled and removed.
C7_TimePriority ==
    /\ \A i \in FillIdx : fills[i].ahead = 0
    /\ \A level \in Levels(bids) \cup Levels(asks) :
          \A i, j \in 1 .. Len(level.orders) :
              i < j => rested[level.orders[i]].at < rested[level.orders[j]].at

\* one call filled two orders of the same level, the later one in part
C7_Witness ==
    \E i, j \in FillIdx :
        /\ i < j
        /\ fills[i].levelPrice = fills[j].levelPrice
        /\ fills[i].maker # fills[j].maker
        /\ fills[j].quantity < fills[j].makerBefore

Occurrences(sideMap, ref) ==
    SumOver([p \in DOMAIN sideMap |->
                Cardinality({i \in 1 .. Len(sideMap[p].orders) :
                                sideMap[p].orders[i] = ref})],
            DOMAIN sideMap)

OwnSide == IF call.side = "Buy" THEN bids ELSE asks
OppSide == IF call.side = "Buy" THEN asks ELSE bids

\* the order of the last call is queued once, at the tail of the level of its
\* own limit price on its own side, and nowhere else
CallRests ==
    /\ call.price \in DOMAIN OwnSide
    /\ OwnSide[call.price].orders # <<>>
    /\ OwnSide[call.price].orders[Len(OwnSide[call.price].orders)] = call.ref
    /\ OwnSide[call.price].price = call.price
    /\ Occurrences(OwnSide, call.ref) = 1
    /\ Occurrences(OppSide, call.ref) = 0

\* the last call was filled for less than its quantity and its remainder rests
C8_RemainderRests ==
    (call.ref # 0 /\ LogQty(fills) < call.qty0) =>
        /\ heap[call.ref].quantity = call.qty0 - LogQty(fills)
        /\ CallRests

Makers(log) == {log[i].maker : i \in 1 .. Len(log)}

\* the next call is an opposite order whose limit is compatible with the price
\* the remainder of this call rests at
C8_NextIsCompatible ==
    /\ call.ref # 0
    /\ LogQty(fills) < call.qty0
    /\ call'.side # call.side
    /\ call'.qty0 > 0
    /\ IF call'.side = "Sell" THEN call'.price <= call.price
                              ELSE call'.price >= call.price

\* C8: an order submitted with quantity q and filled for f < q while matching
\* rests with exactly q - f at its own limit price on its own side when the
\* call returns, and a later price-compatible opposite order matches against
\* the book the remainder rests in: it is filled, and it is either exhausted
\* or it has filled the remainder.
C8_PartialFillRests ==
    [][/\ C8_RemainderRests'
       /\ C8_NextIsCompatible =>
             /\ fills' # <<>>
             /\ \/ heap'[call'.ref].quantity = 0
                \/ /\ call.ref \in Makers(fills')
                   /\ heap'[call.ref].quantity = 0]_vars

\* the last call was filled in part, against an order that was itself the
\* remainder of a partly filled order, and its own remainder rests
C8_Witness ==
    /\ 0 < LogQty(fills)
    /\ LogQty(fills) < call.qty0
    /\ CallRests
    /\ \E i \in FillIdx :
          /\ rested[fills[i].maker].qty > 0
          /\ rested[fills[i].maker].qty < rested[fills[i].maker].init

\* the call being made (call') finds the opposite side empty or its limit not
\* compatible with the best opposite level
C9_NoCross ==
    IF call'.side = "Buy"
    THEN \A a \in DOMAIN asks : call'.price < a
    ELSE \A b \in DOMAIN bids : call'.price > b

\* the call being made generates no fill and leaves the stats and the
\* opposite side as they were
C9_NoFill ==
    /\ fills' = <<>>
    /\ UNCHANGED <<lastTradePrice, totalVolumeTraded, cumulativeNotional>>
    /\ IF call'.side = "Buy" THEN asks' = asks ELSE bids' = bids

\* the call being made leaves its whole order at rest on its own side
C9_WholeRests ==
    /\ heap'[call'.ref].quantity = call'.qty0
    /\ CallRests'

\* C9 as stated: a submitOrder whose limit is not compatible with the best
\* opposite level, or that finds the opposite side empty, makes no fill,
\* leaves lastTradePrice, totalVolumeTraded, cumulativeNotional and the
\* opposite side unchanged, and the whole order rests on its own side.
C9_NoCrossRests_Original ==
    [][C9_NoCross => (C9_NoFill /\ C9_WholeRests)]_vars

\* C9 (amended): as above, the whole order resting on its own side when its
\* quantity is > 0; with quantity 0 its own side is unchanged too.
C9_NoCrossRests ==
    [][C9_NoCross =>
          /\ C9_NoFill
          /\ call'.qty0 > 0 => C9_WholeRests
          /\ call'.qty0 = 0 =>
                IF call'.side = "Buy" THEN bids' = bids ELSE asks' = asks]_vars

\* after trades, an order with quantity that does not reach the best level of
\* the non-empty opposite side has come to rest
C9_Witness ==
    /\ call.qty0 > 0
    /\ fills = <<>>
    /\ fillCount > 0
    /\ DOMAIN OppSide # {}
    /\ IF call.side = "Buy" THEN \A a \in DOMAIN asks : call.price < a
                            ELSE \A b \in DOMAIN bids : call.price > b
    /\ CallRests

\* C10: submitting an order whose quantity is 0 (made with quantity 0, or
\* filled completely and submitted again) changes nothing in the book: both
\* sides, every level and the stats are unchanged, no fill is made and
\* nothing rests.
C10_ZeroQuantityNoOp ==
    [][call'.qty0 = 0 =>
          /\ UNCHANGED <<bids, asks, lastTradePrice, totalVolumeTraded,
                         cumulativeNotional>>
          /\ fills' = <<>>
          /\ Occurrences(bids', call'.ref) = 0
          /\ Occurrences(asks', call'.ref) = 0
          /\ heap'[call'.ref].quantity = 0]_vars

\* an order that was filled completely has been submitted again while the
\* opposite side holds a level its limit is compatible with
C10_Witness ==
    /\ call.again
    /\ call.qty0 = 0
    /\ rested[call.ref].init > 0
    /\ \E p \in DOMAIN OppSide :
          IF call.side = "Buy" THEN call.price >= p ELSE call.price <= p

InMatching == {t \in Submitters : pc[t] \in {"levels", "orders", "rest", "unlock"}}

\* the book and the fills of the call are those of the whole call applied at
\* once to the book the call found
IsWholeCall ==
    /\ heap = inflight.post.heap
    /\ bids = inflight.post.bids
    /\ asks = inflight.post.asks
    /\ lastTradePrice = inflight.post.lastTradePrice
    /\ totalVolumeTraded = inflight.post.totalVolumeTraded
    /\ cumulativeNotional = inflight.post.cumulativeNotional
    /\ fills = inflight.post.log

\* C11: submitOrder is atomic with respect to every other public operation: a
\* getter call that runs concurrently with a submitOrder returns the value
\* from before that submitOrder or the value from after it, never one from
\* between two fills; submitOrder calls of different threads do not
\* interleave (one thread at a time is between lock and unlock), and when a
\* call returns the book is the one the whole call makes of the book it found.
C11_SubmitIsAtomic ==
    /\ (obs.on /\ ~obs.pending) => obs.value \in {obs.pre, obs.post}
    /\ \A t \in InMatching : mtx = {t} /\ inflight.on /\ inflight.by = t
    /\ \A t \in Submitters : pc[t] = "unlock" => IsWholeCall

\* a reader waits for mtx in a getter while a submitOrder that makes several
\* fills is between two of them
C11_Witness ==
    /\ pc["r"] = "lock"
    /\ \E t \in Submitters : pc[t] = "orders"
    /\ inflight.on
    /\ Len(fills) >= 1
    /\ Len(fills) < Len(inflight.post.log)

\* C12: a reader that calls getLastTradePrice(), getVWAP(), getTotalVolume()
\* and getCumulativeNotional() one after another while another thread calls
\* submitOrder gets a consistent snapshot: the four values are those of one
\* single state of the book.
C12_ConsistentSnapshot ==
    Len(snap) = Len(SnapshotOrder) =>
        \E s \in seen :
            \A k \in 1 .. Len(SnapshotOrder) : snap[k] = s[SnapshotOrder[k]]

\* C13: getTotalVolume() never decreases: after a submitOrder call it is >=
\* its value before the call, and the difference is the quantity matched by
\* the call.
C13_VolumeNeverDecreases ==
    [][/\ getTotalVolume' >= getTotalVolume
       /\ getTotalVolume' - getTotalVolume = LogQty(fills')]_vars

\* a <= b; false when a or b is NaN
FLeq(a, b) == ~IsNaN(a) /\ ~IsNaN(b) /\ ~FLess(b, a)

\* C14: generateSignal() returns signal HOLD, strength 0 and reason
\* "Insufficient data" exactly when the price history holds fewer than 31
\* samples; with 31 or more samples it returns a computed signal whose reason
\* is not "Insufficient data".
C14_InsufficientBelow31 ==
    signal.on =>
        /\ signal.samples < 31 =>
              /\ signal.result.signal = "HOLD"
              /\ signal.result.strength = Real(0)
              /\ signal.result.reason = InsufficientData
        /\ signal.samples >= 31 =>
              /\ signal.result.reason # InsufficientData
              /\ signal.result.price = Real(priceHistory[Len(priceHistory)])

\* the first computed signal: 31 samples
C14_Witness ==
    /\ signal.on
    /\ signal.samples = 31
    /\ signal.result.reason # InsufficientData

\* C15: when the history holds fewer than 31 samples, the AlphaSignal that
\* generateSignal() returns has price equal to 0.
C15_InsufficientPriceZero ==
    (signal.on /\ signal.samples < 31) => signal.result.price = Real(0)

\* C16: after n updatePrice calls the three histories have the same length,
\* the length is min(n, 1000), getHistorySize() returns it, and it never
\* exceeds MAX_HISTORY between calls.
C16_HistoryLengths ==
    /\ Len(volumeHistory) = Len(priceHistory)
    /\ Len(vwapHistory) = Len(priceHistory)
    /\ Len(priceHistory) = Min(updates, 1000)
    /\ getHistorySize = Min(updates, 1000)
    /\ getHistorySize <= MAX_HISTORY

\* more than 1000 samples have been fed
C16_Witness ==
    /\ updates > 1000
    /\ getHistorySize = 1000
    /\ priceHistory[1] = updates - 999

\* one step toward zero; zero stays zero
TowardZero(score) ==
    IF score > 0 THEN score - 1 ELSE IF score < 0 THEN score + 1 ELSE 0

\* C17: when volatility > 5.0 the score is moved exactly one step toward zero
\* before it is mapped to a signal, and a score of 0 stays 0: a score of 0
\* before the damper maps to HOLD.
C17_DamperTowardZero ==
    (scored.on /\ FLess(Root(5), indicators.volatility)) =>
        scored.signal =
            signalOfScore(TowardZero(rawScore(indicators.sma_short,
                                              indicators.sma_long,
                                              indicators.rsi,
                                              indicators.momentum)))

C18_MATerm ==
    CASE FLess(indicators.sma_long, indicators.sma_short) -> 1
      [] FLess(indicators.sma_short, indicators.sma_long) -> -1
      [] OTHER -> 0

C18_RSITerm ==
    CASE FLess(indicators.rsi, Real(30)) -> 2
      [] FLeq(Real(30), indicators.rsi) /\ FLess(indicators.rsi, Real(40)) -> 1
      [] FLess(Real(70), indicators.rsi) -> -2
      [] FLess(Real(60), indicators.rsi) /\ FLeq(indicators.rsi, Real(70)) -> -1
      [] OTHER -> 0

C18_MomentumTerm ==
    CASE FLess(Real(2), indicators.momentum) -> 1
      [] FLess(indicators.momentum, Real(-2)) -> -1
      [] OTHER -> 0

C18_Score == C18_MATerm + C18_RSITerm + C18_MomentumTerm

\* C18: for every indicator tuple with volatility <= 5.0, determineSignal
\* returns the signal of score = MA term + RSI term + momentum term, mapped
\* as score >= 3 STRONG_BUY, 1..2 BUY, 0 HOLD, -1..-2 SELL, <= -3
\* STRONG_SELL.
C18_ScoreTable ==
    (scored.on /\ FLeq(indicators.volatility, Root(5))) =>
        /\ C18_Score >= 3 => scored.signal = "STRONG_BUY"
        /\ C18_Score \in 1 .. 2 => scored.signal = "BUY"
        /\ C18_Score = 0 => scored.signal = "HOLD"
        /\ C18_Score \in -2 .. -1 => scored.signal = "SELL"
        /\ C18_Score <= -3 => scored.signal = "STRONG_SELL"

\* volatility exactly 5.0 and rsi exactly 30, with the three terms positive
C18_Witness ==
    /\ scored.on
    /\ indicators.volatility = Root(5)
    /\ indicators.rsi = Real(30)
    /\ scored.signal = "STRONG_BUY"

\* the smaller of two numbers
C19_Min(a, b) == IF FLeq(a, b) THEN a ELSE b

C19_Bonus ==
    CASE signal.result.signal \in {"STRONG_BUY", "STRONG_SELL"} -> Ratio(3, 10)
      [] signal.result.signal \in {"BUY", "SELL"} -> Ratio(1, 5)
      [] OTHER -> Real(0)

\* C19: for every computed signal (history >= 31), strength = min(1.0, 0.5 +
\* bonus + min(|momentum| / 5.0, 0.2)), bonus being 0.3 for STRONG_BUY and
\* STRONG_SELL, 0.2 for BUY and SELL and 0 for HOLD; a computed HOLD has its
\* strength in [0.5, 0.7], and no computed signal has strength 0.
C19_StrengthFormula ==
    (signal.on /\ signal.samples >= 31) =>
        /\ signal.result.strength =
              C19_Min(Real(1),
                      FAdd(FAdd(Ratio(1, 2), C19_Bonus),
                           C19_Min(FDiv(stdAbs(signal.result.momentum), Real(5)),
                                   Ratio(1, 5))))
        /\ signal.result.signal = "HOLD" =>
              /\ FLeq(Ratio(1, 2), signal.result.strength)
              /\ FLeq(signal.result.strength, Ratio(7, 10))
        /\ signal.result.strength # Real(0)

\* C20: for every generateSignal() result, after any sequence of updatePrice
\* calls, 0 <= rsi <= 100 and 0 <= strength <= 1.
C20_RsiAndStrengthInRange ==
    signal.on =>
        /\ FLeq(Real(0), signal.result.rsi)
        /\ FLeq(signal.result.rsi, Real(100))
        /\ FLeq(Real(0), signal.result.strength)
        /\ FLeq(signal.result.strength, Real(1))

\* C21: for every generateSignal() result, after any sequence of updatePrice
\* calls with any prices, the reported volatility is >= 0.
C21_VolatilityNonNegative ==
    signal.on => FLeq(Real(0), signal.result.volatility)

\* C22: generateSignal() is a pure function of the engine state: it changes
\* none of the three history series, and two calls with no updatePrice call
\* between them return equal AlphaSignal values.
C22_GenerateIsPure ==
    [][signal'.on =>
          /\ UNCHANGED <<priceHistory, volumeHistory, vwapHistory>>
          /\ signal.on => signal'.result = signal.result]_vars

\* C26: when the mean of the last 20 prices is zero, as in a history of 31
\* or more zero prices, generateSignal() reports the volatility 0.
C26_ZeroMeanVolatility ==
    (/\ signal.on
     /\ signal.samples >= 31
     /\ sumLast(priceHistory, VOLATILITY_PERIOD) = 0)
        => signal.result.volatility = Real(0)

\* every sample of the history is the same positive price
ConstantPositive ==
    /\ priceHistory # <<>>
    /\ priceHistory[1] > 0
    /\ \A i \in 1 .. Len(priceHistory) : priceHistory[i] = priceHistory[1]

StrictlyIncreasing ==
    \A i \in 2 .. Len(priceHistory) : priceHistory[i - 1] < priceHistory[i]

C25_RallyIsBuy ==
    (signal.on /\ signal.samples = RallyDip + RallyRecovery) =>
        /\ signal.result.signal \in {"BUY", "STRONG_BUY"}
        /\ FLess(Real(0), signal.result.strength)

\* the signal computed after the last price of the rally, 105.0
C25_Witness ==
    /\ signal.on
    /\ signal.samples = 35
    /\ priceHistory[1] = 1000
    /\ priceHistory[20] = 848
    /\ priceHistory[21] = 840
    /\ priceHistory[35] = 1050
    /\ signal.result.price = Real(1050)

\* the stats and the VWAP when matchOrder has run for the order `ref` of heap
\* h against the opposite side opp, from the stats of the current state
C30_StatsAfter(h, opp, ref) ==
    LET m == matchOrder([heap |-> h,
                         opp  |-> opp,
                         lastTradePrice |-> lastTradePrice,
                         totalVolumeTraded |-> totalVolumeTraded,
                         cumulativeNotional |-> cumulativeNotional,
                         rested |-> rested',
                         log  |-> <<>>,
                         oi   |-> 1],
                        ref,
                        IF h[ref].side = "Buy" THEN asksOrder(opp)
                        ELSE bidsOrder(opp))
    IN  <<m.lastTradePrice, m.totalVolumeTraded, m.cumulativeNotional,
          IF m.totalVolumeTraded > 0
          THEN Quotient(m.cumulativeNotional, m.totalVolumeTraded)
          ELSE Zero>>

\* the heap in which the first order of the level `key` holds the quantity
\* of all the orders of the level
C30_OneOrderHeap(h, opp, key) ==
    [h EXCEPT ![opp[key].orders[1]].quantity = SumQty(h, opp[key].orders)]

\* the side in which the level `key` holds its first order only
C30_OneOrderSide(opp, key) ==
    [opp EXCEPT ![key].orders = <<@[1]>>]

\* the heap on which the call recorded in call' started
C30_HeapAtCall ==
    IF call'.ref > Len(heap)
    THEN Append(heap, Order(call'.price, call'.qty0, call'.side))
    ELSE heap

C27_UpdateAfterSubmit ==
    /\ [](fillCount = 0 => priceHistory = <<>>)
    /\ [][feed'.outcome = "processed" =>
            /\ updates' - updates = IF getLastTradePrice' > 0 THEN 1 ELSE 0
            /\ Len(priceHistory') - Len(priceHistory)
                   = IF fillCount' > 0 THEN 1 ELSE 0
            /\ Len(volumeHistory') = Len(priceHistory')
            /\ Len(vwapHistory') = Len(priceHistory')
            /\ getLastTradePrice' > 0 =>
                   /\ priceHistory'[Len(priceHistory')] = getLastTradePrice'
                   /\ volumeHistory'[Len(priceHistory')] = getTotalVolume'
                   /\ vwapHistory'[Len(priceHistory')] = getVWAP']_vars

\* the third event rests without a fill and still adds the second sample
C27_Witness ==
    /\ feed.outcome = "processed"
    /\ fills = <<>>
    /\ fillCount > 0
    /\ Len(priceHistory) = 2
    /\ priceHistory[2] = getLastTradePrice

\* the shape of a message without one of the four fields, that is not JSON,
\* or whose price or quantity std::stod rejects
C28_Unparsable(shape) ==
    \/ ~shape.json
    \/ \E f \in Fields : f \notin shape.fields
    \/ shape.p \in {"text", "huge"}
    \/ shape.q \in {"text", "huge"}

\* C28: a message that lacks one of p, q, m, a, that is not JSON, or whose
\* price or quantity cannot be parsed is dropped: the callback returns with
\* the book, the histories of the signal engine and both mutexes as they were
\* before the message, so that it handles the messages that follow as it would
\* have without it.
C28_MalformedIsDropped ==
    [][C28_Unparsable(feed'.msg) =>
          /\ feed'.outcome = "dropped"
          /\ UNCHANGED <<bookVars, engineVars, mtx, signalMtx>>]_vars

\* a message is dropped when the book has traded and the history has a
\* sample, with trades still to come
C28_Witness ==
    /\ feed.outcome = "dropped"
    /\ C28_Unparsable(feed.msg)
    /\ fillCount > 0
    /\ priceHistory # <<>>
    /\ Len(heap) < MaxFeedOrders

\* the mutex the operation thread t is in, or waits for
C29_Wanted(t) == IF at[t].op \in BookOps THEN mtx ELSE signalMtx

\* C29: no thread holds the mutex of the OrderBook and the mutex of the
\* AlphaSignalGenerator at once, and the callback's sequence submitOrder,
\* getters, updatePrice, generateSignal cannot deadlock with other threads
\* calling public operations: a thread that waits for a mutex holds none, the
\* holder of a mutex is inside its operation and waits for nothing, and a
\* thread that waits for a free mutex can take it, so that no threads wait
\* for one another.
C29_NeverBothMutexes ==
    \A t \in LockThreads :
        /\ ~(t \in mtx /\ t \in signalMtx)
        /\ at[t].pc = "idle" => t \notin mtx \cup signalMtx
        /\ at[t].pc = "in" => C29_Wanted(t) = {t}
        /\ at[t].pc = "lock" =>
              /\ t \notin mtx \cup signalMtx
              /\ \A h \in C29_Wanted(t) : at[h].pc = "in"
              /\ C29_Wanted(t) = {} => ENABLED LockAcquire(t)

\* the callback waits to call updatePrice while one other thread holds the
\* generator's mutex and another the book's
C29_Witness ==
    /\ at["adapter"].pc = "lock"
    /\ at["adapter"].op = "updatePrice"
    /\ signalMtx = {"reader1"}
    /\ mtx = {"reader2"}
    /\ fillCount > 0

\* ------------------------------------------------------------ C31 .. C39
\* the queues of all levels of both sides
C31_Levels ==
    {bids[p] : p \in DOMAIN bids} \cup {asks[p] : p \in DOMAIN asks}

\* C31: after every submitOrder call neither side holds a price level with
\* an empty queue: the level whose last order a call fills is erased by that
\* call, and a level comes into being only as the level of the submitted
\* order, on its own side, holding that order with a quantity > 0.
C31_NoEmptyLevel ==
    /\ [](\A level \in C31_Levels : level.orders # <<>>)
    /\ [][/\ \A i \in 1 .. Len(fills') :
                heap'[fills'[i].maker].quantity = 0 =>
                    \A p \in DOMAIN (IF call'.side = "Buy" THEN asks'
                                     ELSE bids') :
                        \A j \in 1 .. Len((IF call'.side = "Buy" THEN asks'
                                           ELSE bids')[p].orders) :
                            (IF call'.side = "Buy" THEN asks'
                             ELSE bids')[p].orders[j] # fills'[i].maker
          /\ \A p \in (DOMAIN bids') \ (DOMAIN bids) :
                /\ call'.side = "Buy"
                /\ p = call'.price
                /\ bids'[p].orders = <<call'.ref>>
                /\ heap'[call'.ref].quantity > 0
          /\ \A p \in (DOMAIN asks') \ (DOMAIN asks) :
                /\ call'.side = "Sell"
                /\ p = call'.price
                /\ asks'[p].orders = <<call'.ref>>
                /\ heap'[call'.ref].quantity > 0
          /\ (DOMAIN bids) \ (DOMAIN bids') # {} => call'.side = "Sell"
          /\ (DOMAIN asks) \ (DOMAIN asks') # {} => call'.side = "Buy"]_vars

\* a call has filled the only order of a level, and the level is gone
C31_Witness ==
    /\ fills # <<>>
    /\ heap[fills[1].maker].quantity = 0
    /\ fills[1].levelPrice
           \notin DOMAIN (IF call.side = "Buy" THEN asks ELSE bids)
    /\ bids # << >>

\* C32: after more than 1000 updatePrice calls the three histories hold the
\* last 1000 samples in the order of arrival, the i-th entry of each from the
\* same call (the k-th call feeds k to all three), and a call on full
\* histories removes the oldest entry of each and nothing else.
C32_LastThousandAligned ==
    /\ [](updates > 1000 =>
             /\ Len(priceHistory) = 1000
             /\ \A i \in 1 .. 1000 :
                   /\ priceHistory[i] = updates - 1000 + i
                   /\ volumeHistory[i] = priceHistory[i]
                   /\ vwapHistory[i] = priceHistory[i])
    /\ [][(updates' = updates + 1 /\ Len(priceHistory) = 1000) =>
             /\ priceHistory' = Append(Tail(priceHistory), updates')
             /\ volumeHistory' = Append(Tail(volumeHistory), updates')
             /\ vwapHistory' = Append(Tail(vwapHistory), updates')]_vars

\* two samples have been evicted
C32_Witness ==
    /\ updates = 1002
    /\ priceHistory[1] = 3
    /\ vwapHistory[1000] = 1002

\* the quantities the submitted Order objects were made with, summed
C33_InitialTotal ==
    SumOver([r \in 1 .. Len(heap) |-> rested[r].init], 1 .. Len(heap))

\* the remaining quantities of the orders queued on one side, summed
C33_Resting(sideMap) ==
    SumOver([p \in DOMAIN sideMap |-> SumQty(heap, sideMap[p].orders)],
            DOMAIN sideMap)

\* C33: when every Order object is submitted once, the initial quantities of
\* all submitted orders sum to twice the quantity of all fills plus the
\* remaining quantities of the orders resting in the book, and in each call
\* the initial quantity of the order is what the call filled plus what is
\* left of it, which rests when it is not 0.
C33_QuantityConserved ==
    /\ C33_InitialTotal
           = 2 * allFillsQty + C33_Resting(bids) + C33_Resting(asks)
    /\ call.ref # 0 =>
          /\ call.qty0 = LogQty(fills) + heap[call.ref].quantity
          /\ heap[call.ref].quantity > 0 =>
                LET own == IF call.side = "Buy" THEN bids ELSE asks
                IN  /\ call.price \in DOMAIN own
                    /\ own[call.price].orders[Len(own[call.price].orders)]
                           = call.ref

\* an order of 2 has filled an order of 1 and rests with 1, while another
\* order rests untouched
C33_Witness ==
    /\ call.qty0 = 2
    /\ LogQty(fills) = 1
    /\ heap[call.ref].quantity = 1
    /\ C33_Resting(bids) + C33_Resting(asks) = 2
    /\ allFillsQty = 1

\* the Order objects queued on either side
C34_RestingRefs ==
    UNION {{level.orders[j] : j \in 1 .. Len(level.orders)} :
               level \in C31_Levels}

\* C34: when every Order object is submitted at most once, every order
\* resting in the book between two calls has a remaining quantity > 0, no
\* fill has quantity 0, and lastTradePrice changes only in a call that
\* increases totalVolumeTraded.
C34_NoEmptyFill ==
    /\ [](\A r \in C34_RestingRefs : heap[r].quantity > 0)
    /\ [][/\ \A i \in 1 .. Len(fills') : fills'[i].quantity > 0
          /\ lastTradePrice' # lastTradePrice =>
                 totalVolumeTraded' > totalVolumeTraded]_vars

\* the part of C34 that the width of the counter does not touch
C34_RestingPositive ==
    /\ [](\A r \in C34_RestingRefs : heap[r].quantity > 0)
    /\ [][/\ \A i \in 1 .. Len(fills') : fills'[i].quantity > 0
          /\ lastTradePrice' # lastTradePrice => fills' # <<>>]_vars

\* C35: every fill of a Buy with limit L is priced at or below L and every
\* fill of a Sell with limit L at or above L, at the first level the order
\* hits and at every later one.
C35_LimitProtected ==
    \A i \in 1 .. Len(fills) :
        IF call.side = "Buy" THEN fills[i].price <= call.price
                             ELSE fills[i].price >= call.price

\* a Sell has swept two bid levels, the second at its limit
C35_Witness ==
    /\ call.side = "Sell"
    /\ Len(fills) = 2
    /\ fills[1].price > fills[2].price
    /\ fills[2].price = call.price

\* a level of the old book is in the new book as it was, its orders too
C36_LevelKept(old, new, p) ==
    /\ p \in DOMAIN new
    /\ new[p] = old[p]
    /\ \A j \in 1 .. Len(old[p].orders) :
          heap'[old[p].orders[j]] = heap[old[p].orders[j]]

\* the side `new` of the submitted order is the side `old` with the rest of
\* the order, if there is one, queued last at its price
C36_OwnSide(old, new) ==
    /\ \A p \in (DOMAIN old) \ {call'.price} : C36_LevelKept(old, new, p)
    /\ (DOMAIN new) \ {call'.price} \subseteq DOMAIN old
    /\ IF heap'[call'.ref].quantity > 0
       THEN /\ call'.price \in DOMAIN new
            /\ new[call'.price].price = call'.price
            /\ new[call'.price].orders =
                   Append(IF call'.price \in DOMAIN old
                          THEN old[call'.price].orders ELSE <<>>, call'.ref)
            /\ new[call'.price].totalVolume =
                   Add32(IF call'.price \in DOMAIN old
                         THEN old[call'.price].totalVolume ELSE 0,
                         heap'[call'.ref].quantity)
            /\ call'.price \in DOMAIN old =>
                  \A j \in 1 .. Len(old[call'.price].orders) :
                      heap'[old[call'.price].orders[j]]
                          = heap[old[call'.price].orders[j]]
       ELSE /\ DOMAIN new = DOMAIN old
            /\ call'.price \in DOMAIN old =>
                  C36_LevelKept(old, new, call'.price)

\* C36: a submitOrder call of a Buy with limit L changes the bid side only
\* by queueing what is left of the order last at level L, which it creates
\* if there is none, and leaves every ask level priced above L as it was; a
\* Sell with limit L does the same on the ask side and leaves every bid
\* level priced below L as it was.
C36_FrameOfSubmit ==
    [][IF call'.side = "Buy"
       THEN /\ C36_OwnSide(bids, bids')
            /\ \A p \in DOMAIN asks :
                  p > call'.price => C36_LevelKept(asks, asks', p)
       ELSE /\ C36_OwnSide(asks, asks')
            /\ \A p \in DOMAIN bids :
                  p < call'.price => C36_LevelKept(bids, bids', p)]_vars

\* a Buy has been queued behind another bid at its price, below a resting ask
C36_Witness ==
    /\ call.side = "Buy"
    /\ fills = <<>>
    /\ call.price \in DOMAIN bids
    /\ Len(bids[call.price].orders) = 2
    /\ bids[call.price].orders[2] = call.ref
    /\ \E p \in DOMAIN asks : p > call.price

\* the entries queued on the side the last call hits
C37_OppositeEntries ==
    LET opp == IF call.side = "Buy" THEN asks ELSE bids
    IN  SumOver([p \in DOMAIN opp |-> Len(opp[p].orders)], DOMAIN opp)

\* C37: every submitOrder call returns and releases mtx, so that no
\* submitOrder call keeps a getter called later waiting for ever.  Each turn of the inner loop
\* makes one fill that removes a resting order from its queue or leaves the
\* aggressor with nothing, and the fills of one call are against different
\* orders that rested on the opposite side when it began, so there are at
\* most as many fills as there were such orders.
C37_SubmitTerminates ==
    /\ \A t \in Submitters : (t \in mtx) ~> (t \notin mtx)
    /\ \A r \in Readers :
          (pc[r] = "lock") ~> (mtx \cap Submitters = {} \/ pc[r] # "lock")
    /\ [](\A i \in 1 .. Len(fills) :
             /\ heap[fills[i].maker].side # call.side
             /\ rested[fills[i].maker].at > 0
             /\ fills[i].maker < call.ref
             /\ \A j \in 1 .. Len(fills) :
                   fills[j].maker = fills[i].maker => j = i)
    /\ [][Len(fills') = Len(fills) + 1 =>
             \/ C37_OppositeEntries' = C37_OppositeEntries - 1
             \/ heap'[call.ref].quantity = 0]_<<fills, heap, bids, asks>>

\* a call has made two fills and has returned
C37_Witness ==
    /\ Len(fills) = 2
    /\ mtx = {}
    /\ \A t \in Submitters : pc[t] = "idle"
    /\ heap[call.ref].quantity = 0

\* C38: when an Order object that is still resting in the book is passed to
\* submitOrder a second time, the book keeps its invariants through every
\* later submitOrder: the totalVolume of each level is the sum (as uint32_t)
\* of the quantities of the entries in its queue, and no entry in a queue
\* has quantity 0.
C38_LevelSound(level) ==
    /\ level.totalVolume =
          SumOver([i \in 1 .. Len(level.orders) |->
                      heap[level.orders[i]].quantity],
                  1 .. Len(level.orders)) % UintMod
    /\ \A i \in 1 .. Len(level.orders) : heap[level.orders[i]].quantity > 0

C38_ResubmitKeepsInvariants ==
    /\ \A p \in DOMAIN bids : C38_LevelSound(bids[p])
    /\ \A p \in DOMAIN asks : C38_LevelSound(asks[p])

\* C39: Logger::enableFileLogging(path) always returns: while it holds
\* Logger::mutex_ the thread never comes to lock that mutex again in
\* writeLog, and main(), after setLogLevel(INFO) and enableFileLogging, gets
\* to startLiveFeed.
C39_EnableFileLoggingReturns ==
    /\ [](main.fn = "writeLog" /\ main.at = 59 => MainThread \notin mutex_)
    /\ (main.fn = "enableFileLogging") ~> (main.fn = "main")
    /\ (main.line = 255 /\ logger.currentLevel = INFO) ~> (main.line = 272)

====
